---- MODULE Spec2Model ----
(***************************************************************************)
(* Model of the remote-action subsystem of remote-claude:                  *)
(*   hooks/responder.py  - token authority, rate limiter, HTTP responder   *)
(*                                                                         *)
(* Time is counted in half seconds (time.time() is a float; half seconds   *)
(* are the coarsest grid on which the ".0f" rounding of the token          *)
(* timestamp is visible).  Sec(n) is n seconds on that grid.               *)
(*                                                                         *)
(* A text (a Python str) is a sequence of lexemes: ":" is a lexeme of its  *)
(* own, "!" stands for a character outside the base64 alphabet, and every  *)
(* other lexeme is a run of characters that contains neither.  The keyed   *)
(* hash is modelled as a collision-free function whose digests are single  *)
(* lexemes; base64 as an injective wrapping whose decoder discards "!" and *)
(* fails on anything that is not a wrapped text.                           *)
(***************************************************************************)
EXTENDS Integers, Sequences, FiniteSets, TLC

VARIABLES
    now,                      \* time.time(), in half seconds
    ticks,                    \* number of clock advances so far
    USED_TOKENS,              \* responder.py:54
    LAST_CLEANUP,             \* responder.py:56
    rate_limit_tracker,       \* responder.py:61, client address -> timestamps
    rate_limit_last_cleanup,  \* responder.py:62
    tracker_owner,            \* thread whose local list object is tracker[ip]
    tmuxSessions,             \* sessions alive on the tmux socket
    accepted,                 \* the tokens validate_token has accepted so far
    forwarded,                \* the tokens send_tmux_keys was called for so far
    admitted,                 \* client address -> times of recently admitted requests
    lastReq,                  \* outcome of the request handled last
    requests,                 \* number of requests handled so far
    threads,                  \* handler threads of ThreadedHTTPServer
    states,                   \* watch.py:487, session name -> SessionState
    watchLog,                 \* session name -> what the last tick did for it
    promptRun,                \* session name -> the prompt shown without a break
    rateRun,                  \* session name -> the rate-limit signal without a break
    episode,                  \* session name -> waiting, idleness, last emission
    loop,                     \* where the loop of watch_sessions stands in its pass
    notice,                   \* a call of notify.py: what it is given and what it does
    startup,                  \* a start of the responder: its options and its socket
    hook,                     \* a run of safety.py: its input and its verdict
    scan,                     \* a call of prompt_parser.py: its text and its result
    keys                      \* the key file and the key each process holds

vars == <<now, ticks, USED_TOKENS, LAST_CLEANUP, rate_limit_tracker,
          rate_limit_last_cleanup, tracker_owner, tmuxSessions,
          accepted, forwarded, admitted, lastReq, requests, threads,
          states, watchLog, promptRun, rateRun, episode, loop,
          notice, startup, hook, scan, keys>>

(***************************************************************************)
(* Bounds of the model                                                     *)
(***************************************************************************)
MaxTicks == 2
MaxRequests == 2
MaxRateTicks == 2
MaxRateRequests == 11
MaxThreadTicks == 1
MaxThreadRequests == 2
MaxWatchTicks == 4
MaxIdleTicks == 4
MaxFastTicks == 3
MaxPairTicks == 3
MaxStopTicks == 2

(***************************************************************************)
(* Program constants                                                       *)
(***************************************************************************)
TOKEN_EXPIRY_SECONDS == 300
USED_TOKENS_CLEANUP_INTERVAL == 600
RATE_LIMIT_REQUESTS == 10
RATE_LIMIT_WINDOW == 60

Sec(n) == 2 * n

SECRET_KEY == "k-responder"
OtherKey == "k-other"

(***************************************************************************)
(* Text helpers                                                            *)
(***************************************************************************)
Colon == <<":">>

RECURSIVE SplitFrom(_, _, _)
SplitFrom(s, i, start) ==
    IF i > Len(s) THEN <<SubSeq(s, start, Len(s))>>
    ELSE IF s[i] = ":"
         THEN <<SubSeq(s, start, i - 1)>> \o SplitFrom(s, i + 1, i + 1)
         ELSE SplitFrom(s, i + 1, start)

\* token_data.split(":")
Split(s) == SplitFrom(s, 1, 1)

Digits == <<"0", "1", "2", "3", "4", "5", "6", "7", "8", "9">>

IsDigit(c) == \E d \in 1..10 : Digits[d] = c

DigitVal(c) == (CHOOSE d \in 1..10 : Digits[d] = c) - 1

RECURSIVE DecimalValue(_, _)
DecimalValue(numeral, n) ==
    IF n = 0 THEN 0
    ELSE 10 * DecimalValue(numeral, n - 1) + DigitVal(SubSeq(numeral, n, n))

\* float(timestamp_str): a ValueError for anything but a decimal numeral;
\* the value is returned on the half-second grid
ParseFloat(s) ==
    IF /\ Len(s) = 1
       /\ \A i \in 1..Len(s[1]) : IsDigit(SubSeq(s[1], i, i))
    THEN [ok |-> TRUE, val |-> Sec(DecimalValue(s[1], Len(s[1])))]
    ELSE [ok |-> FALSE, val |-> 0]

\* f"{timestamp:.0f}": round to the nearest second, ties to the even second
FormatTs(t) ==
    LET whole == t \div 2
    IN  <<ToString(IF t % 2 = 0 \/ whole % 2 = 0 THEN whole ELSE whole + 1)>>

RECURSIVE HexOf(_, _)
HexOf(s, i) ==
    IF i > Len(s) THEN ""
    ELSE (IF s[i] = ":" THEN "%" ELSE s[i]) \o HexOf(s, i + 1)

\* hmac.new(key, message, sha256).hexdigest()[:16], taken as collision-free:
\* a digest is one lexeme that determines key and message
Hmac(key, message) == <<key \o "|" \o HexOf(message, 1)>>

\* base64.urlsafe_b64encode(...).decode()
B64Encode(s) == <<"b64[">> \o s \o <<"]">>

\* base64.urlsafe_b64decode(token.encode()).decode(): characters outside the
\* alphabet are discarded; what is left must be a complete encoding
B64Decode(t) ==
    LET c == SelectSeq(t, LAMBDA x : x # "!")
    IN  IF Len(c) >= 2 /\ c[1] = "b64[" /\ c[Len(c)] = "]"
        THEN [ok |-> TRUE, data |-> SubSeq(c, 2, Len(c) - 1)]
        ELSE [ok |-> FALSE, data |-> <<>>]

(***************************************************************************)
(* Token authority                                                         *)
(***************************************************************************)
\* generate_token(session, action, timestamp)
generate_token(session, action, timestamp) ==
    LET message == session \o Colon \o action \o Colon \o FormatTs(timestamp)
        signature == Hmac(SECRET_KEY, message)
    IN  B64Encode(message \o Colon \o signature)

Rejected(error, used, last) ==
    [valid |-> FALSE, session |-> <<>>, action |-> <<>>, error |-> error,
     USED_TOKENS |-> used, LAST_CLEANUP |-> last]

\* lines 148-151: the periodic wholesale clearing of the used-token set
SweepDue(t, last) == t - last > Sec(USED_TOKENS_CLEANUP_INTERVAL)

UsedAfterSweep(t, used, last) == IF SweepDue(t, last) THEN {} ELSE used

LastAfterSweep(t, last) == IF SweepDue(t, last) THEN t ELSE last

\* the checks of validate_token with the signature compared before the age
CheckTokenSignatureFirst(token, t, used) ==
    LET dec == B64Decode(token)
        parts == Split(dec.data)
    IN  IF ~dec.ok THEN "Token validation error"
        ELSE IF Len(parts) # 4 THEN "Invalid token format"
        ELSE IF ~ParseFloat(parts[3]).ok THEN "Token validation error"
        ELSE IF parts[4] # Hmac(SECRET_KEY,
                    parts[1] \o Colon \o parts[2] \o Colon \o parts[3])
             THEN "Invalid signature"
        ELSE IF t - ParseFloat(parts[3]).val > Sec(TOKEN_EXPIRY_SECONDS)
             THEN "Token expired"
        ELSE IF token \in used THEN "Token already used"
        ELSE ""

\* the checks of validate_token without the comparison of signatures
CheckTokenUnsigned(token, t, used) ==
    LET dec == B64Decode(token)
        parts == Split(dec.data)
    IN  IF ~dec.ok THEN "Token validation error"
        ELSE IF Len(parts) # 4 THEN "Invalid token format"
        ELSE IF ~ParseFloat(parts[3]).ok THEN "Token validation error"
        ELSE IF t - ParseFloat(parts[3]).val > Sec(TOKEN_EXPIRY_SECONDS)
             THEN "Token expired"
        ELSE IF token \in used THEN "Token already used"
        ELSE ""

\* lines 153-177: every check of validate_token, against the set `used`
CheckToken(token, t, used) ==
    LET dec == B64Decode(token)
        parts == Split(dec.data)
    IN  IF ~dec.ok THEN "Token validation error"
        ELSE IF Len(parts) # 4 THEN "Invalid token format"
        ELSE IF ~ParseFloat(parts[3]).ok THEN "Token validation error"
        ELSE IF t - ParseFloat(parts[3]).val > Sec(TOKEN_EXPIRY_SECONDS)
             THEN "Token expired"
        ELSE IF token \in used THEN "Token already used"
        ELSE IF parts[4] # Hmac(SECRET_KEY,
                    parts[1] \o Colon \o parts[2] \o Colon \o parts[3])
             THEN "Invalid signature"
        ELSE ""

TokenSession(token) == Split(B64Decode(token).data)[1]

TokenAction(token) == Split(B64Decode(token).data)[2]

\* validate_token recording every token it has looked at, accepted or not
validate_token_marking(token, t, used, last) ==
    LET used1 == UsedAfterSweep(t, used, last)
        last1 == LastAfterSweep(t, last)
        error == CheckToken(token, t, used1)
    IN  IF error # "" THEN Rejected(error, used1 \cup {token}, last1)
        ELSE [valid |-> TRUE, session |-> TokenSession(token),
              action |-> TokenAction(token), error |-> "",
              USED_TOKENS |-> used1 \cup {token}, LAST_CLEANUP |-> last1]

\* validate_token(token) at time t: the result and the new module globals
validate_token(token, t, used, last) ==
    LET used1 == UsedAfterSweep(t, used, last)
        last1 == LastAfterSweep(t, last)
        error == CheckToken(token, t, used1)
    IN  IF error # "" THEN Rejected(error, used1, last1)
        ELSE [valid |-> TRUE, session |-> TokenSession(token),
              action |-> TokenAction(token), error |-> "",
              USED_TOKENS |-> used1 \cup {token}, LAST_CLEANUP |-> last1]

(***************************************************************************)
(* Rate limiter                                                            *)
(***************************************************************************)
\* [t for t in timestamps if t > cutoff]
Newer(timestamps, cutoff) == SelectSeq(timestamps, LAMBDA x : x > cutoff)

\* lines 75-81: the periodic sweep of the per-address table
RateSweepDue(t, last) == t - last > Sec(300)

\* the sweep cutting at half a window instead of two
RateSweepEager(t, tracker) ==
    LET cutoff == t - Sec(RATE_LIMIT_WINDOW \div 2)
        kept == {ip \in DOMAIN tracker : Newer(tracker[ip], cutoff) # <<>>}
    IN  [ip \in kept |-> Newer(tracker[ip], cutoff)]

RateSweep(t, tracker) ==
    LET cutoff == t - Sec(RATE_LIMIT_WINDOW * 2)
        kept == {ip \in DOMAIN tracker : Newer(tracker[ip], cutoff) # <<>>}
    IN  [ip \in kept |-> Newer(tracker[ip], cutoff)]

\* lines 84-90: the address's history cut down to the current window
RecentRequests(tracker, client_ip, t) ==
    Newer(IF client_ip \in DOMAIN tracker THEN tracker[client_ip] ELSE <<>>,
          t - Sec(RATE_LIMIT_WINDOW))

\* the limit test letting one request more through
OverLimitByOne(recent_requests) == Len(recent_requests) > RATE_LIMIT_REQUESTS

\* line 93
OverLimit(recent_requests) == Len(recent_requests) >= RATE_LIMIT_REQUESTS

Store(tracker, client_ip, timestamps) ==
    [ip \in DOMAIN tracker \cup {client_ip} |->
        IF ip = client_ip THEN timestamps ELSE tracker[ip]]

\* check_rate_limit(client_ip) at time t: the decision and the new globals
check_rate_limit(client_ip, t, tracker, last) ==
    LET swept == IF RateSweepDue(t, last) THEN RateSweep(t, tracker) ELSE tracker
        last1 == IF RateSweepDue(t, last) THEN t ELSE last
        recent_requests == RecentRequests(swept, client_ip, t)
    IN  IF OverLimit(recent_requests)
        THEN [allowed |-> FALSE, last |-> last1,
              tracker |-> Store(swept, client_ip, recent_requests)]
        ELSE [allowed |-> TRUE, last |-> last1,
              tracker |-> Store(swept, client_ip, Append(recent_requests, t))]

(***************************************************************************)
(* Request handling                                                        *)
(***************************************************************************)
\* ACTION_KEYS.get(action); "" stands for None
ACTION_KEYS(action) ==
    CASE action = <<"yes">> -> "y"
      [] action = <<"no">> -> "n"
      [] action = <<"always">> -> "!"
      [] action = <<"skip">> -> "s"
      [] action = <<"abort">> -> "a"
      [] OTHER -> ""

NoToken == <<>>

Response(ip, path, token, status, error) ==
    [ip |-> ip, path |-> path, token |-> token, status |-> status,
     error |-> error, limited |-> FALSE, validated |-> FALSE, valid |-> FALSE,
     again |-> token \in accepted, resent |-> token \in forwarded,
     session |-> <<>>, action |-> <<>>, keys |-> "", sent |-> FALSE]

NoRequest == Response("", "", NoToken, 0, "")

\* the forwarding step without the probe for the session
ForwardUnprobed(resp, exists, delivered) ==
    IF ACTION_KEYS(resp.action) = ""
    THEN [resp EXCEPT !.status = 400, !.error = "Unknown action"]
    ELSE IF delivered
    THEN [resp EXCEPT !.status = 200, !.keys = ACTION_KEYS(resp.action),
                      !.sent = TRUE]
    ELSE [resp EXCEPT !.status = 500, !.keys = ACTION_KEYS(resp.action),
                      !.sent = TRUE, !.error = "Failed to send keys to tmux"]

\* the forwarding step answering 200 without a keystroke for a missing session
ForwardSilent(resp, exists, delivered) ==
    IF ~exists
    THEN [resp EXCEPT !.status = 200]
    ELSE IF ACTION_KEYS(resp.action) = ""
    THEN [resp EXCEPT !.status = 400, !.error = "Unknown action"]
    ELSE IF delivered
    THEN [resp EXCEPT !.status = 200, !.keys = ACTION_KEYS(resp.action),
                      !.sent = TRUE]
    ELSE [resp EXCEPT !.status = 500, !.keys = ACTION_KEYS(resp.action),
                      !.sent = TRUE, !.error = "Failed to send keys to tmux"]

\* handle_respond, lines 319-339, once validate_token has accepted the token:
\* exists is the outcome of session_exists, delivered that of send_tmux_keys
Forward(resp, exists, delivered) ==
    IF ~exists
    THEN [resp EXCEPT !.status = 404, !.error = "Session not found"]
    ELSE IF ACTION_KEYS(resp.action) = ""
    THEN [resp EXCEPT !.status = 400, !.error = "Unknown action"]
    ELSE IF delivered
    THEN [resp EXCEPT !.status = 200, !.keys = ACTION_KEYS(resp.action),
                      !.sent = TRUE]
    ELSE [resp EXCEPT !.status = 500, !.keys = ACTION_KEYS(resp.action),
                      !.sent = TRUE, !.error = "Failed to send keys to tmux"]

\* handle_respond, lines 304-339: the response to /respond?token=...; fault
\* says which tmux call, if any, fails or times out ("probe", "send", "none")
handle_respond(ip, token, v, fault) ==
    LET resp == [Response(ip, "/respond", token, 403, v.error)
                    EXCEPT !.validated = TRUE, !.valid = v.valid,
                           !.session = v.session, !.action = v.action]
    IN  IF ~v.valid THEN resp
        ELSE Forward(resp, fault # "probe" /\ v.session \in tmuxSessions,
                     fault # "send" /\ v.session \in tmuxSessions)

\* do_GET with the token validated before the rate limit is consulted
OutcomeValidateFirst(ip, path, token, fault) ==
    LET same == [USED_TOKENS |-> USED_TOKENS, LAST_CLEANUP |-> LAST_CLEANUP,
                 tracker |-> rate_limit_tracker,
                 last |-> rate_limit_last_cleanup]
        rl == check_rate_limit(ip, now, rate_limit_tracker, rate_limit_last_cleanup)
        v == validate_token(token, now, USED_TOKENS, LAST_CLEANUP)
        counted == [same EXCEPT !.tracker = rl.tracker, !.last = rl.last]
        checked == [counted EXCEPT !.USED_TOKENS = v.USED_TOKENS,
                                   !.LAST_CLEANUP = v.LAST_CLEANUP]
    IN  IF path = "/health"
        THEN [resp |-> Response(ip, path, NoToken, 200, "")] @@ same
        ELSE IF path # "/respond"
        THEN IF rl.allowed
             THEN [resp |-> Response(ip, path, NoToken, 404, "Not found")]
                  @@ counted
             ELSE [resp |-> [Response(ip, path, token, 429, "Too many requests")
                                EXCEPT !.limited = TRUE]] @@ counted
        ELSE IF token = NoToken
        THEN [resp |-> Response(ip, path, token, 400, "Missing token")] @@ counted
        ELSE IF ~rl.allowed
        THEN [resp |-> [Response(ip, path, token, 429, "Too many requests")
                            EXCEPT !.limited = TRUE]] @@ checked
        ELSE [resp |-> handle_respond(ip, token, v, fault)] @@ checked

\* do_GET recording the token as used only once the keystroke is delivered
OutcomeConsumeLate(ip, path, token, fault) ==
    LET same == [USED_TOKENS |-> USED_TOKENS, LAST_CLEANUP |-> LAST_CLEANUP,
                 tracker |-> rate_limit_tracker,
                 last |-> rate_limit_last_cleanup]
        rl == check_rate_limit(ip, now, rate_limit_tracker, rate_limit_last_cleanup)
        counted == [same EXCEPT !.tracker = rl.tracker, !.last = rl.last]
        v == validate_token(token, now, USED_TOKENS, LAST_CLEANUP)
        resp == handle_respond(ip, token, v, fault)
    IN  IF path = "/health"
        THEN [resp |-> Response(ip, path, NoToken, 200, "")] @@ same
        ELSE IF ~rl.allowed
        THEN [resp |-> [Response(ip, path, token, 429, "Too many requests")
                            EXCEPT !.limited = TRUE]] @@ counted
        ELSE IF path # "/respond"
        THEN [resp |-> Response(ip, path, NoToken, 404, "Not found")] @@ counted
        ELSE IF token = NoToken
        THEN [resp |-> Response(ip, path, token, 400, "Missing token")] @@ counted
        ELSE [resp |-> resp]
             @@ [counted EXCEPT
                   !.USED_TOKENS = IF resp.status = 200 THEN v.USED_TOKENS
                                   ELSE UsedAfterSweep(now, USED_TOKENS,
                                                       LAST_CLEANUP),
                   !.LAST_CLEANUP = v.LAST_CLEANUP]

\* do_GET, lines 275-302, handled without interleaving: the response and the
\* new module globals
Outcome(ip, path, token, fault) ==
    LET same == [USED_TOKENS |-> USED_TOKENS, LAST_CLEANUP |-> LAST_CLEANUP,
                 tracker |-> rate_limit_tracker,
                 last |-> rate_limit_last_cleanup]
        rl == check_rate_limit(ip, now, rate_limit_tracker, rate_limit_last_cleanup)
        counted == [same EXCEPT !.tracker = rl.tracker, !.last = rl.last]
        v == validate_token(token, now, USED_TOKENS, LAST_CLEANUP)
    IN  IF path = "/health"
        THEN [resp |-> Response(ip, path, NoToken, 200, "")] @@ same
        ELSE IF ~rl.allowed
        THEN [resp |-> [Response(ip, path, token, 429, "Too many requests")
                            EXCEPT !.limited = TRUE]] @@ counted
        ELSE IF path # "/respond"
        THEN [resp |-> Response(ip, path, NoToken, 404, "Not found")] @@ counted
        ELSE IF token = NoToken
        THEN [resp |-> Response(ip, path, token, 400, "Missing token")] @@ counted
        ELSE [resp |-> handle_respond(ip, token, v, fault)]
             @@ [counted EXCEPT !.USED_TOKENS = v.USED_TOKENS,
                                !.LAST_CLEANUP = v.LAST_CLEANUP]

(***************************************************************************)
(* Inputs                                                                  *)
(***************************************************************************)
TmuxNames == {<<"rc-a">>}
IssuePairs == { <<<<"rc-a">>, <<"yes">>>>, <<<<"rc-a">>, <<"retry">>>>,
                <<<<"rc", ":", "b">>, <<"yes">>>> }
IssueTimes == {Sec(301) + 1}
Faults == {"none", "probe", "send"}
Delays == {Sec(300), Sec(301) + 1}
Clients == {"100.64.0.2"}
AllClients == {"100.64.0.2", "100.64.0.3"}

\* the tokens generate_token has handed out by now (to the notifier for its
\* action links, or to --gen-token)
Issued ==
    {[token |-> generate_token(p[1], p[2], t), session |-> p[1],
      action |-> p[2], ts |-> FormatTs(t), at |-> t] :
        p \in IssuePairs, t \in {x \in IssueTimes : x <= now}}

IssuedTokens == {r.token : r \in Issued}

\* what a caller without the key can make of an issued token
Forged(r) ==
    LET message == r.session \o Colon \o r.action \o Colon \o r.ts
        signature == Hmac(SECRET_KEY, message)
    IN  { r.token \o <<"!">>,
          B64Encode(r.session \o <<":", "no", ":">> \o r.ts \o Colon \o signature),
          B64Encode(<<"rc-b", ":">> \o r.action \o Colon \o r.ts
                    \o Colon \o signature),
          B64Encode(r.session \o Colon \o r.action \o Colon \o FormatTs(now)
                    \o Colon \o signature),
          B64Encode(message \o Colon \o Hmac(OtherKey, message)),
          B64Encode(message) }

RequestTokens ==
    {NoToken, <<"garbage">>} \cup IssuedTokens
        \cup UNION {Forged(r) : r \in {x \in Issued : x.action = <<"yes">>}}

(***************************************************************************)
(* Actions                                                                 *)
(***************************************************************************)
tokenVars == <<USED_TOKENS, LAST_CLEANUP>>
rateVars == <<rate_limit_tracker, rate_limit_last_cleanup>>
ghostVars == <<accepted, forwarded>>
threadVars == <<tracker_owner, threads>>
watchVars == <<states, watchLog, promptRun, rateRun, episode, loop>>
toolVars == <<hook, scan, keys>>
hookVars == <<notice, startup, toolVars>>
responderVars == <<USED_TOKENS, LAST_CLEANUP, rate_limit_tracker,
                   rate_limit_last_cleanup, tracker_owner, tmuxSessions,
                   accepted, forwarded, admitted, lastReq, requests, threads>>

\* the clock advances; admitted keeps the admissions of the last two windows
Tick(d) ==
    /\ now' = now + d
    /\ ticks' = ticks + 1
    /\ admitted' = [ip \in DOMAIN admitted |->
                       Newer(admitted[ip], now' - Sec(2 * RATE_LIMIT_WINDOW))]
    /\ UNCHANGED <<hookVars, watchVars, tokenVars, rateVars, ghostVars, threadVars, tmuxSessions,
                   lastReq, requests>>

SessionStart(s) ==
    /\ s \notin tmuxSessions
    /\ tmuxSessions' = tmuxSessions \cup {s}
    /\ UNCHANGED <<hookVars, watchVars, now, ticks, tokenVars, rateVars, ghostVars, threadVars,
                   admitted, lastReq, requests>>

SessionKill(s) ==
    /\ s \in tmuxSessions
    /\ tmuxSessions' = tmuxSessions \ {s}
    /\ UNCHANGED <<hookVars, watchVars, now, ticks, tokenVars, rateVars, ghostVars, threadVars,
                   admitted, lastReq, requests>>

\* one request handled from accept to response
do_GET(ip, path, token, fault) ==
    \E o \in {Outcome(ip, path, token, fault)} :
        /\ lastReq' = o.resp
        /\ USED_TOKENS' = o.USED_TOKENS
        /\ LAST_CLEANUP' = o.LAST_CLEANUP
        /\ rate_limit_tracker' = o.tracker
        /\ rate_limit_last_cleanup' = o.last
        /\ accepted' = IF o.resp.valid THEN accepted \cup {token} ELSE accepted
        /\ forwarded' = IF o.resp.sent THEN forwarded \cup {token} ELSE forwarded
        /\ admitted' = IF path # "/health" /\ ~o.resp.limited
                       THEN [admitted EXCEPT ![ip] = Append(@, now)]
                       ELSE admitted
        /\ UNCHANGED <<hookVars, watchVars, now, ticks, threadVars, tmuxSessions>>

\* a request counted against the bound max of a specification
Counted(max) == requests < max /\ requests' = requests + 1

Health(ip) == do_GET(ip, "/health", NoToken, "none")

NotFound(ip) == do_GET(ip, "/other", NoToken, "none")

Respond(ip, token, fault) == do_GET(ip, "/respond", token, fault)

Threads == {1, 2}

IdleThread ==
    [pc |-> "idle", ip |-> "", path |-> "", token |-> NoToken, fault |-> "none",
     now |-> 0, recent |-> <<>>, again |-> FALSE, session |-> <<>>,
     action |-> <<>>]

\* no watcher running
IdleWatcher ==
    /\ states = <<>>
    /\ watchLog = <<>>
    /\ promptRun = <<>>
    /\ rateRun = <<>>
    /\ episode = <<>>
    /\ loop = <<>>

\* no call of notify.py and no start of the responder under study
\* no run of safety.py, no call of prompt_parser.py, no key under study
IdleTools ==
    /\ hook = <<>>
    /\ scan = <<>>
    /\ keys = <<>>

IdleHooks ==
    /\ notice = <<>>
    /\ startup = <<>>
    /\ IdleTools

Init ==
    /\ IdleWatcher
    /\ IdleHooks
    /\ now = 0
    /\ ticks = 0
    /\ USED_TOKENS = {}
    /\ LAST_CLEANUP = 0
    /\ rate_limit_tracker = <<>>
    /\ rate_limit_last_cleanup = 0
    /\ tracker_owner = [ip \in AllClients |-> 0]
    /\ tmuxSessions = {}
    /\ accepted = {}
    /\ forwarded = {}
    /\ admitted = [ip \in AllClients |-> <<>>]
    /\ lastReq = NoRequest
    /\ requests = 0
    /\ threads = [t \in Threads |-> IdleThread]

(***************************************************************************)
(* Spec: the responder handling one request at a time                      *)
(***************************************************************************)
Next ==
    \/ \E d \in Delays : ticks < MaxTicks /\ Tick(d)
    \/ \E s \in TmuxNames : SessionStart(s)
    \/ \E s \in TmuxNames : SessionKill(s)
    \/ \E ip \in Clients : Counted(MaxRequests) /\ Health(ip)
    \/ \E ip \in Clients : Counted(MaxRequests) /\ NotFound(ip)
    \/ \E ip \in Clients, token \in RequestTokens, fault \in Faults :
          Counted(MaxRequests) /\ Respond(ip, token, fault)

Spec == Init /\ [][Next]_vars

(***************************************************************************)
(* SpecRate: two clients against the rate limiter                          *)
(***************************************************************************)
RateDelays == {Sec(30), Sec(301)}

NextRate ==
    \/ \E d \in RateDelays : ticks < MaxRateTicks /\ Tick(d)
    \/ \E ip \in AllClients : Counted(MaxRateRequests) /\ Health(ip)
    \/ \E ip \in AllClients : Counted(MaxRateRequests) /\ NotFound(ip)

SpecRate == Init /\ [][NextRate]_vars

(***************************************************************************)
(* SpecLimit: one client running into the limit with tokens in hand        *)
(***************************************************************************)
NextLimit ==
    \/ \E d \in Delays : ticks < MaxTicks /\ Tick(d)
    \/ \E s \in TmuxNames : SessionStart(s)
    \/ \E ip \in Clients : NotFound(ip) /\ UNCHANGED requests
    \/ \E ip \in Clients, token \in IssuedTokens :
          Respond(ip, token, "none") /\ UNCHANGED requests

SpecLimit == Init /\ [][NextLimit]_vars

(***************************************************************************)
(* SpecThreads: ThreadedHTTPServer, one thread per request.  A step is a   *)
(* stretch of do_GET between two accesses to the module globals; the code  *)
(* takes no lock anywhere, so the threads interleave at every step.        *)
(***************************************************************************)
ThreadDelays == {Sec(301) + 1}
ThreadPaths == {"/respond", "/other"}

ThreadResponse(t, status, error) ==
    Response(threads[t].ip, threads[t].path, threads[t].token, status, error)

\* the thread answers and ends
Finish(t, resp) ==
    /\ lastReq' = resp
    /\ threads' = [threads EXCEPT ![t] = IdleThread]

\* a connection is accepted and a handler thread started for it
Accept(t, ip, path, token, fault) ==
    /\ threads[t].pc = "idle"
    /\ Counted(MaxThreadRequests)
    /\ threads' = [threads EXCEPT ![t] =
                      [IdleThread EXCEPT !.pc = "rate", !.ip = ip, !.path = path,
                                         !.token = token, !.fault = fault]]
    /\ UNCHANGED <<hookVars, watchVars, now, ticks, tokenVars, rateVars, ghostVars, tracker_owner,
                   tmuxSessions, admitted, lastReq>>

\* check_rate_limit, lines 72-85: read the clock, sweep, create the entry
RateEnter(t) ==
    /\ threads[t].pc = "rate"
    /\ \E swept \in {IF RateSweepDue(now, rate_limit_last_cleanup)
                     THEN RateSweep(now, rate_limit_tracker)
                     ELSE rate_limit_tracker} :
        /\ rate_limit_tracker' =
              IF threads[t].ip \in DOMAIN swept THEN swept
              ELSE Store(swept, threads[t].ip, <<>>)
        /\ tracker_owner' =
              [ip \in AllClients |->
                  IF RateSweepDue(now, rate_limit_last_cleanup)
                     \/ ip \notin DOMAIN swept
                  THEN 0 ELSE tracker_owner[ip]]
    /\ rate_limit_last_cleanup' =
          IF RateSweepDue(now, rate_limit_last_cleanup)
          THEN now ELSE rate_limit_last_cleanup
    /\ threads' = [threads EXCEPT ![t].pc = "filter", ![t].now = now]
    /\ UNCHANGED <<hookVars, watchVars, now, ticks, tokenVars, ghostVars, tmuxSessions, admitted,
                   lastReq, requests>>

\* line 89: the list comprehension builds a new list; a KeyError when another
\* thread's sweep has deleted the entry ends the request without a response
RateFilter(t) ==
    /\ threads[t].pc = "filter"
    /\ IF threads[t].ip \in DOMAIN rate_limit_tracker
       THEN /\ threads' = [threads EXCEPT
                   ![t].pc = "store",
                   ![t].recent = RecentRequests(rate_limit_tracker,
                                                threads[t].ip, threads[t].now)]
            /\ UNCHANGED lastReq
       ELSE Finish(t, ThreadResponse(t, 0, "KeyError"))
    /\ UNCHANGED <<hookVars, watchVars, now, ticks, tokenVars, rateVars, ghostVars, tracker_owner,
                   tmuxSessions, admitted, requests>>

\* line 90: the new list replaces the entry; it stays this thread's local list
RateStore(t) ==
    /\ threads[t].pc = "store"
    /\ rate_limit_tracker' =
          Store(rate_limit_tracker, threads[t].ip, threads[t].recent)
    /\ tracker_owner' = [tracker_owner EXCEPT ![threads[t].ip] = t]
    /\ threads' = [threads EXCEPT ![t].pc = "limit"]
    /\ UNCHANGED <<hookVars, watchVars, now, ticks, tokenVars, rate_limit_last_cleanup, ghostVars,
                   tmuxSessions, admitted, lastReq, requests>>

\* lines 93-94, 287-294: len(recent_requests) on the thread's local list
RateLimit(t) ==
    /\ threads[t].pc = "limit"
    /\ IF OverLimit(threads[t].recent)
       THEN Finish(t, [ThreadResponse(t, 429, "Too many requests")
                          EXCEPT !.limited = TRUE])
       ELSE /\ threads' = [threads EXCEPT ![t].pc = "append"]
            /\ UNCHANGED lastReq
    /\ UNCHANGED <<hookVars, watchVars, now, ticks, tokenVars, rateVars, ghostVars, tracker_owner,
                   tmuxSessions, admitted, requests>>

\* line 97 and lines 296-310: the append goes to whatever list the entry holds
\* now, which is also the local list of the thread that stored it last
RateAppend(t) ==
    /\ threads[t].pc = "append"
    /\ IF threads[t].ip \notin DOMAIN rate_limit_tracker
       THEN /\ Finish(t, ThreadResponse(t, 0, "KeyError"))
            /\ UNCHANGED <<hookVars, watchVars, rate_limit_tracker, admitted>>
       ELSE /\ rate_limit_tracker' =
                  [rate_limit_tracker EXCEPT
                      ![threads[t].ip] = Append(@, threads[t].now)]
            /\ admitted' = [admitted EXCEPT
                               ![threads[t].ip] = Append(@, threads[t].now)]
            /\ \E o \in {tracker_owner[threads[t].ip]} :
                 \E aliased \in {IF o # 0 /\ threads[o].pc = "limit"
                                 THEN [threads EXCEPT ![o].recent =
                                          Append(@, threads[t].now)]
                                 ELSE threads} :
                    IF threads[t].path # "/respond"
                    THEN /\ lastReq' = ThreadResponse(t, 404, "Not found")
                         /\ threads' = [aliased EXCEPT ![t] = IdleThread]
                    ELSE IF threads[t].token = NoToken
                    THEN /\ lastReq' = ThreadResponse(t, 400, "Missing token")
                         /\ threads' = [aliased EXCEPT ![t] = IdleThread]
                    ELSE /\ threads' = [aliased EXCEPT ![t].pc = "validate"]
                         /\ UNCHANGED lastReq
    /\ UNCHANGED <<hookVars, watchVars, now, ticks, tokenVars, rate_limit_last_cleanup, ghostVars,
                   tracker_owner, tmuxSessions, requests>>

\* validate_token, lines 148-177: the sweep and every check, up to the
\* signature; the token is not yet in the set
ValCheck(t) ==
    /\ threads[t].pc = "validate"
    /\ USED_TOKENS' = UsedAfterSweep(now, USED_TOKENS, LAST_CLEANUP)
    /\ LAST_CLEANUP' = LastAfterSweep(now, LAST_CLEANUP)
    /\ \E error \in {CheckToken(threads[t].token, now,
                        UsedAfterSweep(now, USED_TOKENS, LAST_CLEANUP))} :
          IF error # ""
          THEN Finish(t, [ThreadResponse(t, 403, error)
                             EXCEPT !.validated = TRUE])
          ELSE /\ threads' = [threads EXCEPT
                      ![t].pc = "mark",
                      ![t].session = TokenSession(threads[t].token),
                      ![t].action = TokenAction(threads[t].token)]
               /\ UNCHANGED lastReq
    /\ UNCHANGED <<hookVars, watchVars, now, ticks, rateVars, ghostVars, tracker_owner,
                   tmuxSessions, admitted, requests>>

\* line 180: USED_TOKENS.add(token), and validate_token returns success
ValMark(t) ==
    /\ threads[t].pc = "mark"
    /\ USED_TOKENS' = USED_TOKENS \cup {threads[t].token}
    /\ accepted' = accepted \cup {threads[t].token}
    /\ threads' = [threads EXCEPT ![t].pc = "forward",
                                  ![t].again = threads[t].token \in accepted]
    /\ UNCHANGED <<hookVars, watchVars, now, ticks, LAST_CLEANUP, rateVars, forwarded, tracker_owner,
                   tmuxSessions, admitted, lastReq, requests>>

\* lines 319-339: session_exists, ACTION_KEYS, send_tmux_keys
ThreadForward(t) ==
    /\ threads[t].pc = "forward"
    /\ \E resp \in {Forward([ThreadResponse(t, 403, "")
                               EXCEPT !.validated = TRUE, !.valid = TRUE,
                                      !.again = threads[t].again,
                                      !.session = threads[t].session,
                                      !.action = threads[t].action],
                            threads[t].fault # "probe"
                               /\ threads[t].session \in tmuxSessions,
                            threads[t].fault # "send"
                               /\ threads[t].session \in tmuxSessions)} :
          /\ Finish(t, resp)
          /\ forwarded' = IF resp.sent THEN forwarded \cup {threads[t].token}
                          ELSE forwarded
    /\ UNCHANGED <<hookVars, watchVars, now, ticks, tokenVars, rateVars, accepted, tracker_owner,
                   tmuxSessions, admitted, requests>>

NextThreads ==
    \/ \E d \in ThreadDelays : ticks < MaxThreadTicks /\ Tick(d)
    \/ \E s \in TmuxNames : SessionStart(s)
    \/ \E t \in Threads, ip \in AllClients, path \in ThreadPaths,
          token \in {NoToken} \cup {r.token : r \in {x \in Issued :
                                                     x.action = <<"yes">>}} :
          Accept(t, ip, path, token, "none")
    \/ \E t \in Threads : RateEnter(t)
    \/ \E t \in Threads : RateFilter(t)
    \/ \E t \in Threads : RateStore(t)
    \/ \E t \in Threads : RateLimit(t)
    \/ \E t \in Threads : RateAppend(t)
    \/ \E t \in Threads : ValCheck(t)
    \/ \E t \in Threads : ValMark(t)
    \/ \E t \in Threads : ThreadForward(t)

SpecThreads == Init /\ [][NextThreads]_vars

(***************************************************************************)
(* Session watcher (src/hooks/watch.py, src/hooks/prompt_parser.py)        *)
(*                                                                         *)
(* A captured pane is a sequence of lines and a line a sequence of words;  *)
(* the regular expressions of the classifiers are matched word by word.    *)
(* None is "" for a prompt text and NoTime for a time.                     *)
(***************************************************************************)
CHECK_INTERVAL == 30
IDLE_THRESHOLD == 300
PROMPT_NOTIFY_DELAY == 120
RATE_LIMIT_DEBOUNCE == 60

NoTime == 0 - 1
NoPrompt == <<>>
NoCapture == <<<<"capture-pane failed">>>>

RECURSIVE Flatten(_)
\* the words of some lines, in order, as one text
Flatten(lines) ==
    IF lines = <<>> THEN <<>> ELSE Head(lines) \o Flatten(Tail(lines))

\* lines[-n:] if len(lines) > n else lines
LastLines(lines, n) ==
    IF Len(lines) > n THEN SubSeq(lines, Len(lines) - n + 1, Len(lines))
    ELSE lines

\* the positions where the words of phrase end in text
PhraseEnds(text, phrase) ==
    {i \in Len(phrase)..Len(text) :
        \A k \in 1..Len(phrase) : text[i - Len(phrase) + k] = phrase[k]}

HasPhrase(text, phrase) == PhraseEnds(text, phrase) # {}

HasWordOf(text, words) == \E i \in 1..Len(text) : text[i] \in words

\* PERMISSION_INDICATORS, in order; 5 is Allow\s+\w+\s+to
IndicatorEnds(text, k) ==
    CASE k = 1 -> PhraseEnds(text, <<"[y/n]">>)
      [] k = 2 -> PhraseEnds(text, <<"[y/n/!]">>)
      [] k = 3 -> PhraseEnds(text, <<"[y/n/!/a/s]">>)
      [] k = 4 -> PhraseEnds(text, <<"[yn!]">>)
      [] k = 5 -> {i \in 3..Len(text) : text[i - 2] = "Allow" /\ text[i] = "to"}
      [] k = 6 -> PhraseEnds(text, <<"Do", "you", "want", "to", "allow">>)
      [] k = 7 -> PhraseEnds(text, <<"Permission", "required">>)
      [] k = 8 -> PhraseEnds(text, <<"Approve", "this", "action">>)

is_permission_prompt(text) == \E k \in 1..8 : IndicatorEnds(text, k) # {}

Max(S) == CHOOSE x \in S : \A y \in S : y <= x

RECURSIVE LStripLines(_)
\* the lines of a text without its leading empty lines
LStripLines(lines) ==
    IF lines # <<>> /\ Head(lines) = <<>> THEN LStripLines(Tail(lines))
    ELSE lines

RECURSIVE RStripLines(_)
\* the lines of a text without its trailing empty lines
RStripLines(lines) ==
    IF lines # <<>> /\ lines[Len(lines)] = <<>>
    THEN RStripLines(SubSeq(lines, 1, Len(lines) - 1))
    ELSE lines

\* output.strip().split("\n"), line 205
StrippedLines(output) == RStripLines(LStripLines(output))

RECURSIVE JoinLines(_)
\* " ".join(lines): the words of the lines in order, where an empty line
\* leaves an empty word between two blanks
JoinLines(lines) ==
    IF lines = <<>> THEN <<>>
    ELSE (IF Head(lines) = <<>> THEN <<"">> ELSE Head(lines))
            \o JoinLines(Tail(lines))

\* PERMISSION_INDICATORS over joined lines: the \s+ of Allow\s+\w+\s+to
\* runs over the blanks an empty line leaves, the single blanks of the other
\* indicators do not
JoinedIndicatorEnds(text, k) ==
    IF k # 5 THEN IndicatorEnds(text, k)
    ELSE {i \in 3..Len(text) :
            /\ text[i] = "to"
            /\ \E a \in 1..(i - 2) : \E b \in (a + 1)..(i - 1) :
                  /\ text[a] = "Allow"
                  /\ text[b] # ""
                  /\ \A j \in (a + 1)..(i - 1) : j # b => text[j] = ""}

\* extract_prompt_from_output(output, lines_to_check): the bottom-most line
\* of the last lines_to_check that shows an indicator, else the match over
\* the last 5 of these lines joined
extract_prompt_in(output, lines_to_check) ==
    LET search_lines == LastLines(StrippedLines(output), lines_to_check)
        hits == {i \in 1..Len(search_lines) :
                    /\ search_lines[i] # <<>>
                    /\ is_permission_prompt(search_lines[i])}
        combined == JoinLines(LastLines(search_lines, 5))
        found == {k \in 1..8 : JoinedIndicatorEnds(combined, k) # {}}
        first == CHOOSE k \in found : \A j \in found : k <= j
    IN  IF output = <<>> THEN NoPrompt
        ELSE IF hits # {} THEN search_lines[Max(hits)]
        ELSE IF found # {}
        THEN SubSeq(combined, 1, Max(JoinedIndicatorEnds(combined, first)))
        ELSE NoPrompt

\* extract_prompt_from_output(output) with lines_to_check at its default
extract_prompt_from_output(output) == extract_prompt_in(output, 20)

\* \[([yn\\!as/]+)\]
OptionBrackets == {"[y/n]", "[y/n/!]", "[y/n/!/a/s]", "[yn!]"}

RECURSIVE Chars(_)
\* the length of a text whose words are each followed by one blank
Chars(text) ==
    IF text = <<>> THEN 0 ELSE Len(Head(text)) + 1 + Chars(Tail(text))

\* parse_permission_prompt(text): whether one of PERMISSION_PATTERNS matches,
\* and the tool it names
parse_permission_prompt(text) ==
    LET brackets == {i \in 1..Len(text) : text[i] \in OptionBrackets}
        allowTo == {i \in 1..Len(text) :
                    /\ text[i] = "Allow"
                    /\ \E b \in brackets :
                          \/ i + 4 <= b /\ text[i + 2] = "to"
                          \/ /\ i + 5 <= b
                             /\ text[i + 2] = "tool" /\ text[i + 3] = "to"}
        verbs == {"Run", "Execute", "Create", "Edit", "Modify", "Read", "Write"}
        colon == /\ Len(text) >= 4
                 /\ Len(text[1]) >= 2
                 /\ SubSeq(text[1], Len(text[1]), Len(text[1])) = ":"
                 /\ text[2] \in verbs
                 /\ \E b \in brackets : b >= 4
        want == \E e \in PhraseEnds(text, <<"Do", "you", "want", "to", "allow">>) :
                    \E b \in brackets : e + 1 <= b - 1
        tail == /\ Len(text) \in brackets
                /\ Chars(SubSeq(text, 1, Len(text) - 1)) >= 10
    IN  IF allowTo # {}
        THEN [ok |-> TRUE, tool |-> text[(CHOOSE i \in allowTo :
                                            \A j \in allowTo : i <= j) + 1]]
        ELSE IF colon
        THEN [ok |-> TRUE, tool |-> SubSeq(text[1], 1, Len(text[1]) - 1)]
        ELSE IF want \/ tail
        THEN [ok |-> TRUE, tool |-> "Unknown"]
        ELSE [ok |-> FALSE, tool |-> ""]

\* is_rate_limited(content): RATE_LIMIT_PATTERNS over the last 20 lines
is_rate_limited(content) ==
    LET text == Flatten(LastLines(content, 20))
    IN  \/ HasPhrase(text, <<"rate", "limit">>)
        \/ HasPhrase(text, <<"too", "many", "requests">>)
        \/ HasWordOf(text, {"429", "throttled", "throttling", "ratelimit"})
        \/ HasPhrase(text, <<"quota", "exceeded">>)
        \/ HasPhrase(text, <<"capacity", "exceeded">>)
        \/ HasPhrase(text, <<"try", "again", "later">>)
        \/ HasPhrase(text, <<"usage", "limit">>)

\* is_waiting_for_input(content): WAITING_PATTERNS over the last 10 lines
is_waiting_for_input(content) ==
    LET last_lines == LastLines(content, 10)
        text == Flatten(last_lines)
    IN  \/ \E i \in 1..Len(last_lines) :
              last_lines[i] # <<>> /\ Head(last_lines[i]) \in {">", "?"}
        \/ HasWordOf(text, {"User:", "[y/n]"})
        \/ HasPhrase(text, <<"Press", "Enter">>)
        \/ HasPhrase(text, <<"waiting", "for", "input">>)
        \/ HasPhrase(text, <<"Enter", "your">>)

\* is_actively_working(content): WORKING_PATTERNS over the last 5 lines
is_actively_working(content) ==
    HasWordOf(Flatten(LastLines(content, 5)),
              {"Running", "Executing", "Building", "Installing",
               "Downloading", "Compiling", "Testing", "..."})

\* SessionState.__init__, created at time t
SessionState(name, t) ==
    [name |-> name, last_content |-> <<>>, last_change |-> t,
     last_notification |-> 0, is_waiting |-> FALSE, notified_waiting |-> FALSE,
     last_prompt |-> NoPrompt, notified_prompt |-> NoPrompt,
     prompt_detected_at |-> NoTime, rate_limit_detected_at |-> NoTime,
     rate_limit_notified |-> FALSE, rate_limit_count |-> 0]

\* check_session, lines 356-360
ContentStep(state, content, t) ==
    IF content # state.last_content
    THEN [state EXCEPT !.last_content = content, !.last_change = t]
    ELSE state

\* TrackPrompt keeping the time of the first prompt when the prompt changes
TrackPromptKeep(state, prompt_text, t) ==
    IF prompt_text # state.last_prompt
    THEN [state EXCEPT !.last_prompt = prompt_text,
                       !.prompt_detected_at = IF @ = NoTime THEN t ELSE @]
    ELSE state

\* check_session, lines 366-368: a prompt other than the tracked one is
\* tracked from t on
TrackPrompt(state, prompt_text, t) ==
    IF prompt_text # state.last_prompt
    THEN [state EXCEPT !.last_prompt = prompt_text, !.prompt_detected_at = t]
    ELSE state

\* NotifyPrompt without the test of line 371 that the prompt is not the
\* one already notified
NotifyPromptAgain(state, tracked, prompt_text, t) ==
    IF prompt_text = NoPrompt
    THEN [state |-> [state EXCEPT !.last_prompt = NoPrompt,
                                  !.notified_prompt = NoPrompt,
                                  !.prompt_detected_at = NoTime],
          out |-> <<>>]
    ELSE IF /\ t - (IF tracked.prompt_detected_at = NoTime THEN t
                    ELSE tracked.prompt_detected_at)
                 >= Sec(PROMPT_NOTIFY_DELAY)
            /\ t - tracked.last_notification > Sec(30)
            /\ parse_permission_prompt(prompt_text).ok
    THEN [state |-> [tracked EXCEPT !.notified_prompt = prompt_text,
                                    !.last_notification = t,
                                    !.notified_waiting = TRUE],
          out |-> <<[type |-> "permission", session |-> state.name,
                     tool |-> parse_permission_prompt(prompt_text).tool]>>]
    ELSE [state |-> tracked, out |-> <<>>]

\* check_session, lines 370-395: the new state and what is returned, if
\* anything, where tracked is the state after the prompt is tracked
NotifyPrompt(state, tracked, prompt_text, t) ==
    IF prompt_text = NoPrompt
    THEN [state |-> [state EXCEPT !.last_prompt = NoPrompt,
                                  !.notified_prompt = NoPrompt,
                                  !.prompt_detected_at = NoTime],
          out |-> <<>>]
    ELSE IF /\ prompt_text # tracked.notified_prompt
            /\ t - (IF tracked.prompt_detected_at = NoTime THEN t
                    ELSE tracked.prompt_detected_at)
                 >= Sec(PROMPT_NOTIFY_DELAY)
            /\ t - tracked.last_notification > Sec(30)
            /\ parse_permission_prompt(prompt_text).ok
    THEN [state |-> [tracked EXCEPT !.notified_prompt = prompt_text,
                                    !.last_notification = t,
                                    !.notified_waiting = TRUE],
          out |-> <<[type |-> "permission", session |-> state.name,
                     tool |-> parse_permission_prompt(prompt_text).tool]>>]
    ELSE [state |-> tracked, out |-> <<>>]

\* check_session, lines 362-395, for the prompt extracted from the pane
PromptOn(state, prompt_text, t) ==
    NotifyPrompt(state, TrackPrompt(state, prompt_text, t), prompt_text, t)

\* check_session, lines 362-395: the new state and what is returned, if anything
PromptStep(state, content, t) ==
    PromptOn(state, extract_prompt_from_output(content), t)

\* CountSignal taking the first signal as already RATE_LIMIT_DEBOUNCE old
CountSignalBackdated(state, t) ==
    [state EXCEPT !.rate_limit_count = @ + 1,
                  !.rate_limit_detected_at =
                      IF @ = NoTime THEN t - Sec(RATE_LIMIT_DEBOUNCE) ELSE @]

\* check_session, lines 400-402: one more positive rate-limit signal
CountSignal(state, t) ==
    [state EXCEPT !.rate_limit_count = @ + 1,
                  !.rate_limit_detected_at = IF @ = NoTime THEN t ELSE @]

\* check_session, lines 397-429
RateStep(state, content, t, mode, accounts) ==
    IF ~is_rate_limited(content)
    THEN [state |-> [state EXCEPT !.rate_limit_detected_at = NoTime,
                                  !.rate_limit_notified = FALSE,
                                  !.rate_limit_count = 0],
          out |-> <<>>]
    ELSE IF /\ t - CountSignal(state, t).rate_limit_detected_at
                 >= Sec(RATE_LIMIT_DEBOUNCE)
            /\ ~state.rate_limit_notified
    THEN [state |-> [CountSignal(state, t) EXCEPT
                        !.rate_limit_notified = TRUE,
                        !.last_notification = t],
          out |-> <<[type |-> "rate_limit", session |-> state.name,
                     mode |-> mode,
                     available_accounts |-> accounts]>>]
    ELSE [state |-> CountSignal(state, t), out |-> <<>>]

\* GenericNotify without the test of line 463 that the last notification is
\* more than IDLE_THRESHOLD old
GenericNotifyEager(state, is_waiting, t) ==
    IF is_waiting /\ ~state.notified_waiting
    THEN IF t - state.last_notification > Sec(60)
         THEN [state |-> [state EXCEPT !.is_waiting = is_waiting,
                                       !.notified_waiting = TRUE,
                                       !.last_notification = t],
               out |-> <<[type |-> "waiting", session |-> state.name]>>]
         ELSE [state |-> [state EXCEPT !.is_waiting = is_waiting],
               out |-> <<>>]
    ELSE IF t - state.last_change > Sec(IDLE_THRESHOLD) /\ ~is_waiting
    THEN [state |-> [state EXCEPT !.is_waiting = is_waiting,
                                  !.last_notification = t],
          out |-> <<[type |-> "idle", session |-> state.name]>>]
    ELSE [state |-> [state EXCEPT !.is_waiting = is_waiting], out |-> <<>>]

\* check_session, lines 448-472: the waiting or idle notification, where
\* is_waiting is the session waiting for input and not working
GenericNotify(state, is_waiting, t) ==
    IF is_waiting /\ ~state.notified_waiting
    THEN IF t - state.last_notification > Sec(60)
         THEN [state |-> [state EXCEPT !.is_waiting = is_waiting,
                                       !.notified_waiting = TRUE,
                                       !.last_notification = t],
               out |-> <<[type |-> "waiting", session |-> state.name]>>]
         ELSE [state |-> [state EXCEPT !.is_waiting = is_waiting],
               out |-> <<>>]
    ELSE IF /\ t - state.last_change > Sec(IDLE_THRESHOLD) /\ ~is_waiting
            /\ t - state.last_notification > Sec(IDLE_THRESHOLD)
    THEN [state |-> [state EXCEPT !.is_waiting = is_waiting,
                                  !.last_notification = t],
          out |-> <<[type |-> "idle", session |-> state.name]>>]
    ELSE [state |-> [state EXCEPT !.is_waiting = is_waiting], out |-> <<>>]

\* check_session, lines 475-476: the waiting flag is reset when not waiting
ResetWaiting(told, is_waiting) ==
    IF is_waiting THEN told
    ELSE [told EXCEPT !.state.notified_waiting = FALSE]

\* check_session, lines 431-478, for a given answer of the classifiers
GenericOn(state, is_waiting, t) ==
    ResetWaiting(GenericNotify(state, is_waiting, t), is_waiting)

\* check_session, lines 431-478
GenericStep(state, content, t) ==
    GenericOn(state,
              is_waiting_for_input(content) /\ ~is_actively_working(content),
              t)

\* AfterRate running the generic evaluation only when the capture shows no
\* prompt and no rate-limit text
AfterRateQuiet(rate, content, t) ==
    IF rate.out # <<>>
    THEN [state |-> rate.state, out |-> rate.out, ran |-> {"prompt", "rate"}]
    ELSE IF \/ extract_prompt_from_output(content) # NoPrompt
            \/ is_rate_limited(content)
    THEN [state |-> rate.state, out |-> <<>>, ran |-> {"prompt", "rate"}]
    ELSE [state |-> GenericStep(rate.state, content, t).state,
          out |-> GenericStep(rate.state, content, t).out,
          ran |-> {"prompt", "rate", "generic"}]

\* check_session from line 431 on, where rate is the result of lines 397-429
AfterRate(rate, content, t) ==
    IF rate.out # <<>>
    THEN [state |-> rate.state, out |-> rate.out, ran |-> {"prompt", "rate"}]
    ELSE [state |-> GenericStep(rate.state, content, t).state,
          out |-> GenericStep(rate.state, content, t).out,
          ran |-> {"prompt", "rate", "generic"}]

\* AfterPrompt going on after a permission notification instead of returning
AfterPromptAll(prompt, content, t, mode, accounts) ==
    [state |-> AfterRate(RateStep(prompt.state, content, t, mode, accounts),
                         content, t).state,
     out |-> prompt.out
                \o AfterRate(RateStep(prompt.state, content, t, mode, accounts),
                             content, t).out,
     ran |-> AfterRate(RateStep(prompt.state, content, t, mode, accounts),
                       content, t).ran]

\* check_session from line 397 on, where prompt is the result of lines 362-395
AfterPrompt(prompt, content, t, mode, accounts) ==
    IF prompt.out # <<>>
    THEN [state |-> prompt.state, out |-> prompt.out, ran |-> {"prompt"}]
    ELSE AfterRate(RateStep(prompt.state, content, t, mode, accounts),
                   content, t)

\* check_session once the pane is captured: the new state, what is returned
\* and which of the three evaluations ran
check_session(state, content, t, mode, accounts) ==
    AfterPrompt(PromptStep(ContentStep(state, content, t), content, t),
                content, t, mode, accounts)

SwitchOutcomes == {"ok", "fail", "raise"}

Notify(title) == [call |-> "send_notification", title |-> title]

\* handle_rate_limit sending nothing when `rc switch` raises or times out
handle_rate_limit_silent(notification, outcome) ==
    IF notification.mode = "manual" THEN <<>>
    ELSE IF notification.mode = "notify"
    THEN <<Notify("Rate Limit - Switch Account?")>>
    ELSE IF notification.mode # "auto" THEN <<>>
    ELSE IF notification.available_accounts = <<>>
    THEN <<Notify("Rate Limit - No Accounts")>>
    ELSE <<[call |-> "switch", title |-> notification.available_accounts[1]]>>
         \o (CASE outcome = "ok" -> <<Notify("Account Switched")>>
               [] outcome = "fail" -> <<Notify("Auto-Switch Failed")>>
               [] OTHER -> <<>>)

\* handle_rate_limit(notification): the external calls it makes, in order;
\* outcome is what `rc switch` does if it is invoked
handle_rate_limit(notification, outcome) ==
    IF notification.mode = "manual" THEN <<>>
    ELSE IF notification.mode = "notify"
    THEN <<Notify("Rate Limit - Switch Account?")>>
    ELSE IF notification.mode # "auto" THEN <<>>
    ELSE IF notification.available_accounts = <<>>
    THEN <<Notify("Rate Limit - No Accounts")>>
    ELSE <<[call |-> "switch", title |-> notification.available_accounts[1]],
           Notify(CASE outcome = "ok" -> "Account Switched"
                    [] outcome = "fail" -> "Auto-Switch Failed"
                    [] OTHER -> "Auto-Switch Error")>>

\* watch_sessions, lines 516-537: what is done with the result of check_session
Dispatch(out, outcome) ==
    IF out = <<>> THEN <<>>
    ELSE IF out[1].type = "permission"
    THEN <<[call |-> "send_interactive_notification",
            title |-> out[1].tool \o " Permission"]>>
    ELSE IF out[1].type = "rate_limit"
    THEN handle_rate_limit(out[1], outcome)
    ELSE <<Notify(IF out[1].type = "waiting" THEN "Claude Waiting"
                  ELSE "Session Idle")>>

(***************************************************************************)
(* SpecWatch: the polling loop of the watcher over one session             *)
(***************************************************************************)
WatchNames == {"rc-a", "rc-b"}
SoloNames == {"rc-a"}
WatchStart == Sec(1000)
WatchDelays == {Sec(CHECK_INTERVAL), Sec(110)}
Modes == {"manual", "notify", "auto"}
AccountLists == {<<>>, <<"work">>}

\* what the configuration, `rc switch` and the notification service hold for
\* an emission: the mode, the accounts other than the current one, the
\* outcome of the switch, and whether send_notification or
\* send_interactive_notification returns True
Envs ==
    {e \in [mode : Modes, accounts : AccountLists, outcome : SwitchOutcomes,
            delivered : BOOLEAN] :
        /\ (e.mode # "auto" \/ e.accounts = <<>>) => e.outcome = "ok"
        /\ e.mode = "manual" => e.delivered}

QuietEnv ==
    [mode |-> "manual", accounts |-> <<>>, outcome |-> "ok",
     delivered |-> TRUE]

FailEnv == [QuietEnv EXCEPT !.delivered = FALSE]

Done == <<"done">>
PromptBash == <<"Allow", "Bash", "to", "run:", "rm", "file.txt?", "[y/n/!]">>
PromptEdit == <<"Allow", "Edit", "to", "modify", "a.py?", "[y/n]">>
PromptBare == <<"Permission", "required">>
Banner == <<"rate", "limit", "exceeded">>
InputPrompt == <<">">>

Screens ==
    { <<Done>>, <<PromptBash>>, <<PromptEdit>>, <<PromptBare>>, <<Banner>>,
      <<Banner, PromptBash>>, <<InputPrompt>> }

Captures == Screens \cup {NoCapture}

\* how many of the notifications returned are of the given type
CountType(out, type) ==
    Cardinality({i \in 1..Len(out) : out[i].type = type})

\* how many of the calls made are invocations of `rc switch`
Switches(calls) ==
    Cardinality({i \in 1..Len(calls) : calls[i].call = "switch"})

NoRun == [text |-> NoPrompt, since |-> NoTime, sent |-> 0, lost |-> FALSE]
NoRateRun ==
    [since |-> NoTime, events |-> 0, switches |-> 0, notes |-> 0, auto |-> TRUE]
NotListed ==
    [listed |-> FALSE, captured |-> FALSE, fresh |-> FALSE, out |-> <<>>,
     ran |-> {}, calls |-> <<>>, mode |-> "", accounts |-> <<>>,
     outcome |-> "", delivered |-> TRUE]

\* the prompt shown at every capture of a session since `since`, where shown
\* is the prompt of this capture, sent the permission events of this pass and
\* lost tells that the delivery of one of them failed
PromptRunOn(run, listed, content, t, shown, sent, lost) ==
    IF ~listed THEN NoRun
    ELSE IF content = NoCapture THEN run
    ELSE IF shown = NoPrompt THEN NoRun
    ELSE IF shown # run.text
    THEN [text |-> shown, since |-> t, sent |-> sent, lost |-> lost]
    ELSE [run EXCEPT !.sent = @ + sent, !.lost = @ \/ lost]

PromptRunAfter(run, listed, content, t, out, env) ==
    PromptRunOn(run, listed, content, t, extract_prompt_from_output(content),
                CountType(out, "permission"),
                CountType(out, "permission") > 0 /\ ~env.delivered)

\* the rate-limit signal positive at every capture of a session since `since`,
\* where handled are the calls made for a rate_limit event of this pass and
\* auto tells that every event of the run found the mode auto and an account
\* to switch to
RateRunOn(run, listed, content, t, events, handled, env) ==
    IF ~listed THEN NoRateRun
    ELSE IF content = NoCapture THEN run
    ELSE IF ~is_rate_limited(content) THEN NoRateRun
    ELSE [since |-> IF run.since = NoTime THEN t ELSE run.since,
          events |-> run.events + events,
          switches |-> run.switches + Switches(handled),
          notes |-> run.notes + Len(handled) - Switches(handled),
          auto |-> /\ run.auto
                   /\ events > 0 => env.mode = "auto" /\ env.accounts # <<>>]

RateRunAfter(run, listed, content, t, out, calls, env) ==
    RateRunOn(run, listed, content, t,
              CountType(out, "rate_limit"),
              IF CountType(out, "rate_limit") > 0
              THEN calls ELSE <<>>,
              env)

\* what the captures of a session have shown without a break: waiting and
\* not working since `waiting`, with `waited` waiting notifications; the
\* content `shown` unchanged since `unchanged`, with the last idle
\* notification of that idleness at `idled`; the last emission of any kind
\* at `emitted`
NoEpisode ==
    [waiting |-> NoTime, waited |-> 0, shown |-> <<>>, unchanged |-> NoTime,
     idled |-> NoTime, idles |-> 0, emitted |-> NoTime]

EpisodeOn(run, content, t, out, waits) ==
    [waiting |-> IF ~waits THEN NoTime
                 ELSE IF run.waiting = NoTime THEN t ELSE run.waiting,
     waited |-> IF ~waits THEN 0 ELSE run.waited + CountType(out, "waiting"),
     shown |-> content,
     unchanged |-> IF content = run.shown THEN run.unchanged ELSE t,
     idled |-> IF CountType(out, "idle") > 0 THEN t
               ELSE IF content = run.shown THEN run.idled ELSE NoTime,
     idles |-> (IF content = run.shown THEN run.idles ELSE 0)
                  + CountType(out, "idle"),
     emitted |-> IF out # <<>> THEN t ELSE run.emitted]

EpisodeAfter(run, listed, content, t, out) ==
    IF ~listed THEN NoEpisode
    ELSE IF content = NoCapture THEN run
    ELSE EpisodeOn(run, content, t, out,
                   is_waiting_for_input(content)
                      /\ ~is_actively_working(content))

\* watch_sessions, lines 508-512: the state of session s, created at need
StateOf(s, t) == IF s \in DOMAIN states THEN states[s] ELSE SessionState(s, t)

\* Checked starting the session afresh when the capture fails
CheckedReset(s, content, t, env) ==
    IF content = NoCapture
    THEN [state |-> SessionState(s, t), out |-> <<>>, ran |-> {}]
    ELSE check_session(StateOf(s, t), content, t, env.mode, env.accounts)

\* check_session, lines 350-354: nothing changes when the capture fails
Checked(s, content, t, env) ==
    IF content = NoCapture
    THEN [state |-> StateOf(s, t), out |-> <<>>, ran |-> {}]
    ELSE check_session(StateOf(s, t), content, t, env.mode, env.accounts)

\* what is recorded of one pass for session s, where res is the result of
\* check_session and calls the external calls made for it
Visited(s, listed, content, t, env, res, calls) ==
    [state |-> res.state,
     log |-> IF ~listed THEN NotListed
             ELSE [listed |-> TRUE, captured |-> content # NoCapture,
                   fresh |-> s \notin DOMAIN states,
                   out |-> [i \in 1..Len(res.out) |-> res.out[i].type],
                   ran |-> res.ran, calls |-> calls,
                   mode |-> IF res.out # <<>>
                               /\ res.out[1].type = "rate_limit"
                            THEN env.mode ELSE "",
                   accounts |-> IF res.out # <<>>
                                   /\ res.out[1].type = "rate_limit"
                                THEN env.accounts ELSE <<>>,
                   outcome |-> IF res.out # <<>>
                                  /\ res.out[1].type = "rate_limit"
                               THEN env.outcome ELSE "",
                   delivered |-> calls = <<>> \/ env.delivered],
     prompt |-> PromptRunAfter(promptRun[s], listed, content, t, res.out,
                               env),
     rate |-> RateRunAfter(rateRun[s], listed, content, t, res.out, calls,
                           env),
     episode |-> EpisodeAfter(episode[s], listed, content, t, res.out)]

\* Handled putting the state back when the delivery fails, so that the
\* emission is decided again in the next pass
HandledRetry(s, listed, content, t, env, res) ==
    Visited(s, listed, content, t, env,
            IF res.out # <<>> /\ ~env.delivered
            THEN [res EXCEPT !.state = StateOf(s, t)] ELSE res,
            Dispatch(res.out, env.outcome))

\* watch_sessions, lines 516-537, for the result res of check_session
Handled(s, listed, content, t, env, res) ==
    Visited(s, listed, content, t, env, res, Dispatch(res.out, env.outcome))

\* watch_sessions, lines 505-537, for the capture content of session s
VisitOn(s, listed, content, t, env) ==
    Handled(s, listed, content, t, env, Checked(s, content, t, env))

\* what one pass of the loop of watch_sessions does for session s at time t
Visit(s, sessions, caps, t, env) ==
    VisitOn(s, s \in sessions, IF s \in sessions THEN caps[s] ELSE NoCapture,
            t, env)

\* whether the pass emits a rate_limit event for some session
EmitsEvent(v) ==
    \E s \in WatchNames : \E i \in 1..Len(v[s].log.out) :
        v[s].log.out[i] = "rate_limit"

\* whether the pass emits something for some session
EmitsAny(v) == \E s \in WatchNames : v[s].log.out # <<>>

\* what the pass finds outside the watcher, read only when it emits
EnvsFor(v) ==
    IF EmitsEvent(v) THEN Envs
    ELSE IF EmitsAny(v) THEN {QuietEnv, FailEnv}
    ELSE {QuietEnv}

\* watch_sessions, lines 541-546, without the deletion of the states of
\* the sessions that are no longer enumerated
KeptAll(v, sessions) ==
    [s \in sessions \cup DOMAIN states |->
        IF s \in sessions THEN v[s].state ELSE states[s]]

\* watch_sessions, lines 541-546: the state table after the pass
Kept(v, sessions) == [s \in sessions |-> v[s].state]

\* one pass of the loop of watch_sessions, lines 494-546, begun d after the
\* previous one
WatchPass(sessions, caps, d) ==
    \E t \in {now + d} :
    \E quiet \in {[s \in WatchNames |-> Visit(s, sessions, caps, t, QuietEnv)]} :
    \E env \in EnvsFor(quiet) :
    \E v \in {IF env = QuietEnv THEN quiet
              ELSE [s \in WatchNames |-> Visit(s, sessions, caps, t, env)]} :
        /\ now' = t
        /\ ticks' = ticks + 1
        /\ states' = Kept(v, sessions)
        /\ watchLog' = [s \in WatchNames |-> v[s].log]
        /\ promptRun' = [s \in WatchNames |-> v[s].prompt]
        /\ rateRun' = [s \in WatchNames |-> v[s].rate]
        /\ episode' = [s \in WatchNames |-> v[s].episode]
        /\ UNCHANGED <<hookVars, responderVars>>

\* one pass of the loop of watch_sessions, lines 494-551, after its sleep of d
WatchTick(sessions, caps, d) ==
    /\ WatchPass(sessions, caps, d)
    /\ UNCHANGED loop

\* no result of check_session waiting to be dispatched
NoResult == [state |-> <<>>, out |-> <<>>, ran |-> {}]

\* the loop of watch_sessions in its sleep, line 551, or before its first pass
AsleepLoop ==
    [pc |-> "sleep", sessions |-> {}, todo |-> {}, session |-> "",
     content |-> NoCapture, env |-> QuietEnv, res |-> NoResult,
     fresh |-> FALSE]

InitWatch ==
    /\ now = WatchStart
    /\ ticks = 0
    /\ states = <<>>
    /\ watchLog = [s \in WatchNames |-> NotListed]
    /\ promptRun = [s \in WatchNames |-> NoRun]
    /\ rateRun = [s \in WatchNames |-> NoRateRun]
    /\ episode = [s \in WatchNames |-> NoEpisode]
    /\ loop = AsleepLoop
    /\ IdleHooks
    /\ USED_TOKENS = {}
    /\ LAST_CLEANUP = 0
    /\ rate_limit_tracker = <<>>
    /\ rate_limit_last_cleanup = 0
    /\ tracker_owner = [ip \in AllClients |-> 0]
    /\ tmuxSessions = {}
    /\ accepted = {}
    /\ forwarded = {}
    /\ admitted = [ip \in AllClients |-> <<>>]
    /\ lastReq = NoRequest
    /\ requests = 0
    /\ threads = [t \in Threads |-> IdleThread]

NextWatch ==
    \E sessions \in SUBSET SoloNames, d \in WatchDelays :
        \E caps \in [sessions -> Captures] :
            ticks < MaxWatchTicks /\ WatchTick(sessions, caps, d)

SpecWatch == InitWatch /\ [][NextWatch]_vars

(***************************************************************************)
(* SpecIdle: the polling loop over one session that sits for minutes       *)
(***************************************************************************)
IdleDelays == {Sec(110), Sec(310)}
IdleCaptures == {<<Done>>, <<Banner>>, <<InputPrompt>>, NoCapture}

NextIdle ==
    \E sessions \in SUBSET SoloNames, d \in IdleDelays :
        \E caps \in [sessions -> IdleCaptures] :
            ticks < MaxIdleTicks /\ WatchTick(sessions, caps, d)

SpecIdle == InitWatch /\ [][NextIdle]_vars

(***************************************************************************)
(* SpecFast: the polling loop started with --interval 10 (main, lines      *)
(* 608-624, assigns the option to CHECK_INTERVAL)                          *)
(***************************************************************************)
FastDelays == {Sec(10), Sec(50)}
FastCaptures == {<<Done>>, <<Banner>>, <<Banner, InputPrompt>>, <<InputPrompt>>}

NextFast ==
    \E sessions \in SUBSET SoloNames, d \in FastDelays :
        \E caps \in [sessions -> FastCaptures] :
            ticks < MaxFastTicks /\ WatchTick(sessions, caps, d)

SpecFast == InitWatch /\ [][NextFast]_vars

(***************************************************************************)
(* SpecPair: the polling loop over two sessions                            *)
(***************************************************************************)
PairDelays == {Sec(110)}
PairCaptures == {<<InputPrompt>>, <<PromptBash>>, NoCapture}

NextPair ==
    \E sessions \in SUBSET WatchNames, d \in PairDelays :
        \E caps \in [sessions -> PairCaptures] :
            ticks < MaxPairTicks /\ WatchTick(sessions, caps, d)

SpecPair == InitWatch /\ [][NextPair]_vars

(***************************************************************************)
(* The loop of watch_sessions statement by statement, with the stop        *)
(* signal: Ctrl+C raises KeyboardInterrupt in the loop body (lines         *)
(* 495-555), and in run_daemon the handler of SIGTERM and SIGINT calls     *)
(* sys.exit(0) (lines 566-571); both take effect at the statement the      *)
(* loop is executing                                                       *)
(***************************************************************************)
StopDelays == {Sec(110)}
StopCaptures == {<<InputPrompt>>, <<PromptBash>>, NoCapture}

\* what is recorded for session s once the loop is done with it
Recorded(s, v, fresh) ==
    /\ watchLog' = [watchLog EXCEPT ![s] = [v.log EXCEPT !.fresh = fresh]]
    /\ promptRun' = [promptRun EXCEPT ![s] = v.prompt]
    /\ rateRun' = [rateRun EXCEPT ![s] = v.rate]
    /\ episode' = [episode EXCEPT ![s] = v.episode]

\* lines 496-503 after the sleep of d: the enumeration of the sessions
Enumerate(sessions, d) ==
    /\ loop.pc = "sleep"
    /\ ticks < MaxStopTicks
    /\ now' = now + d
    /\ ticks' = ticks + 1
    /\ loop' = [AsleepLoop EXCEPT !.pc = "check", !.sessions = sessions,
                                  !.todo = sessions]
    /\ \E v \in {[s \in WatchNames |->
                    VisitOn(s, FALSE, NoCapture, now + d, QuietEnv)]} :
          /\ watchLog' = [s \in WatchNames |->
                IF s \in sessions THEN watchLog[s] ELSE v[s].log]
          /\ promptRun' = [s \in WatchNames |->
                IF s \in sessions THEN promptRun[s] ELSE v[s].prompt]
          /\ rateRun' = [s \in WatchNames |->
                IF s \in sessions THEN rateRun[s] ELSE v[s].rate]
          /\ episode' = [s \in WatchNames |->
                IF s \in sessions THEN episode[s] ELSE v[s].episode]
    /\ UNCHANGED <<hookVars, responderVars, states>>

\* what the check of a session finds outside the watcher, read only when
\* it emits
EnvsOn(quiet) ==
    IF quiet.out = <<>> THEN {QuietEnv}
    ELSE IF quiet.out[1].type = "rate_limit" THEN Envs
    ELSE {QuietEnv, FailEnv}

\* lines 506-514: the state of session s is created if absent and
\* check_session decides the notification
CheckOne(s, content) ==
    /\ loop.pc = "check"
    /\ s \in loop.todo
    /\ \E env \in EnvsOn(Checked(s, content, now, QuietEnv)) :
       \E res \in {Checked(s, content, now, env)} :
          /\ states' = [x \in DOMAIN states \cup {s} |->
                           IF x = s THEN res.state ELSE states[x]]
          /\ IF res.out = <<>>
             THEN /\ Recorded(s, Visited(s, TRUE, content, now, env, res, <<>>),
                              s \notin DOMAIN states)
                  /\ loop' = [loop EXCEPT !.todo = @ \ {s}]
             ELSE /\ loop' = [loop EXCEPT !.pc = "dispatch", !.session = s,
                                          !.content = content, !.env = env,
                                          !.res = res,
                                          !.fresh = s \notin DOMAIN states]
                  /\ UNCHANGED <<watchLog, promptRun, rateRun, episode>>
    /\ UNCHANGED <<hookVars, responderVars, now, ticks>>

\* lines 516-537: the notification decided by check_session is sent
DispatchOne ==
    /\ loop.pc = "dispatch"
    /\ Recorded(loop.session,
                Handled(loop.session, TRUE, loop.content, now, loop.env,
                        loop.res),
                loop.fresh)
    /\ loop' = [AsleepLoop EXCEPT !.pc = "check",
                                  !.sessions = loop.sessions,
                                  !.todo = loop.todo \ {loop.session}]
    /\ UNCHANGED <<hookVars, responderVars, now, ticks, states>>

\* lines 541-551: the states of the sessions that ended are deleted and the
\* loop goes to sleep
Cleanup ==
    /\ loop.pc = "check"
    /\ loop.todo = {}
    /\ states' = Kept([s \in WatchNames |-> [state |-> StateOf(s, now)]],
                      loop.sessions)
    /\ loop' = AsleepLoop
    /\ UNCHANGED <<hookVars, responderVars, now, ticks, watchLog, promptRun, rateRun,
                   episode>>

\* lines 553-555 and 566-571: the stop signal ends the loop where it stands
Stop ==
    /\ loop.pc \in {"sleep", "check", "dispatch"}
    /\ loop' = [loop EXCEPT !.pc = "stopped"]
    /\ UNCHANGED <<hookVars, responderVars, now, ticks, states, watchLog, promptRun,
                   rateRun, episode>>

NextStop ==
    \/ \E sessions \in SUBSET WatchNames, d \in StopDelays :
          Enumerate(sessions, d)
    \/ \E s \in WatchNames, content \in StopCaptures : CheckOne(s, content)
    \/ DispatchOne
    \/ Cleanup
    \/ Stop

SpecStop == InitWatch /\ [][NextStop]_vars

(***************************************************************************)
(* notify.py: send_interactive_notification.  A host is a sequence: the   *)
(* four numbers of an IPv4 address or the lexemes of a name, and the      *)
(* empty sequence where the code has None or the empty string             *)
(***************************************************************************)
NoHost == <<>>
Loopback == <<127, 0, 0, 1>>
OverlayIP == <<100, 64, 0, 5>>
LanIP == <<192, 168, 1, 20>>
OverlayName == <<"mac.tail.ts.net">>

\* str.rstrip("."), line 455
RECURSIVE Rstrip(_)
Rstrip(name) ==
    IF name # <<>> /\ name[Len(name)] = "."
    THEN Rstrip(SubSeq(name, 1, Len(name) - 1)) ELSE name

\* lines 441-457: what `tailscale status --json` gives for the host and for
\* the name of the deep link.  ok is a return code of 0 with a JSON answer,
\* has_ips tells that Self has the key TailscaleIPs; an empty list raises
\* IndexError at line 453, which line 456 swallows
AfterTailscale(host, blink_h, ts) ==
    IF ~ts.ok THEN [host |-> host, blink_h |-> blink_h]
    ELSE IF host = NoHost /\ ts.has_ips /\ ts.ips = <<>>
    THEN [host |-> host, blink_h |-> blink_h]
    ELSE [host |-> IF host # NoHost THEN host
                   ELSE IF ts.has_ips THEN ts.ips[1] ELSE NoHost,
          blink_h |-> IF blink_h # NoHost THEN blink_h ELSE Rstrip(ts.dns)]

\* lines 470-472: the first match of inet (100\.\d+\.\d+\.\d+)
RECURSIVE FirstInet(_)
FirstInet(inet) ==
    IF inet = <<>> THEN NoHost
    ELSE IF inet[1][1] = 100 THEN inet[1]
    ELSE FirstInet(Tail(inet))

\* AfterIfconfig falling back on the loopback address when the interfaces
\* give no address
AfterIfconfigLoopback(host, ic) ==
    IF host # NoHost THEN host
    ELSE IF ic.ok /\ FirstInet(ic.inet) # NoHost THEN FirstInet(ic.inet)
    ELSE Loopback

\* lines 459-474: the fallback on the interfaces of the machine
AfterIfconfig(host, ic) ==
    IF host # NoHost \/ ~ic.ok THEN host ELSE FirstInet(ic.inet)

\* lines 438-474: the host of the action links
ResponderHost(call) ==
    IF call.host # NoHost /\ call.blink_h # NoHost THEN call.host
    ELSE AfterIfconfig(AfterTailscale(call.host, call.blink_h,
                                      call.tailscale).host,
                       call.ifconfig)

\* lines 438-480: the host of the deep link
BlinkHost(call, host) ==
    IF call.host # NoHost /\ call.blink_h # NoHost THEN call.blink_h
    ELSE IF AfterTailscale(call.host, call.blink_h,
                           call.tailscale).blink_h # NoHost
    THEN AfterTailscale(call.host, call.blink_h, call.tailscale).blink_h
    ELSE host

\* nothing done: no token issued, nothing sent
Undone(ret) ==
    [ret |-> ret, tokens |-> <<>>, posts |-> 0, host |-> NoHost,
     blink_h |-> NoHost]

\* lines 484-529 for the host found
LinksSent(call, host) ==
    [ret |-> call.response = 200, tokens |-> <<"yes", "always", "no">>,
     posts |-> 1, host |-> host, blink_h |-> BlinkHost(call, host)]

\* send_interactive_notification, lines 404-529, where call.host is
\* responder_host or the configured host and call.blink_h is blink_host or
\* the configured one (lines 436-439)
send_interactive_notification(call) ==
    IF ~call.enabled THEN Undone(TRUE)
    ELSE IF ~call.pushover THEN Undone(FALSE)
    ELSE IF ResponderHost(call) = NoHost THEN Undone(FALSE)
    ELSE LinksSent(call, ResponderHost(call))

(***************************************************************************)
(* SpecInteractive: one call of send_interactive_notification              *)
(***************************************************************************)
MaxInteractiveCalls == 1

TailscaleAnswers ==
    {[ok |-> FALSE, has_ips |-> FALSE, ips |-> <<>>, dns |-> <<>>],
     [ok |-> TRUE, has_ips |-> FALSE, ips |-> <<>>, dns |-> <<>>],
     [ok |-> TRUE, has_ips |-> TRUE, ips |-> <<>>,
      dns |-> OverlayName \o <<".">>],
     [ok |-> TRUE, has_ips |-> TRUE, ips |-> <<OverlayIP>>,
      dns |-> OverlayName \o <<".">>]}

IfconfigAnswers ==
    {[ok |-> FALSE, inet |-> <<>>],
     [ok |-> TRUE, inet |-> <<Loopback>>],
     [ok |-> TRUE, inet |-> <<Loopback, LanIP>>],
     [ok |-> TRUE, inet |-> <<Loopback, LanIP, OverlayIP>>]}

InteractiveCalls ==
    [enabled : BOOLEAN, pushover : BOOLEAN,
     host : {NoHost, <<"responder.example">>},
     blink_h : {NoHost, OverlayName},
     tailscale : TailscaleAnswers, ifconfig : IfconfigAnswers,
     response : {200, 500, 0}]

\* the call is made and returns
Interactive ==
    /\ notice.calls < MaxInteractiveCalls
    /\ notice' = [notice EXCEPT
                     !.calls = @ + 1,
                     !.result = send_interactive_notification(notice.call)]
    /\ UNCHANGED <<watchVars, responderVars, now, ticks, startup, toolVars>>

\* the responder and the clock at rest
IdleResponder ==
    /\ now = 0
    /\ ticks = 0
    /\ USED_TOKENS = {}
    /\ LAST_CLEANUP = 0
    /\ rate_limit_tracker = <<>>
    /\ rate_limit_last_cleanup = 0
    /\ tracker_owner = [ip \in AllClients |-> 0]
    /\ tmuxSessions = {}
    /\ accepted = {}
    /\ forwarded = {}
    /\ admitted = [ip \in AllClients |-> <<>>]
    /\ lastReq = NoRequest
    /\ requests = 0
    /\ threads = [t \in Threads |-> IdleThread]

InitInteractive ==
    /\ notice \in [call : InteractiveCalls, calls : {0},
                    result : {Undone(FALSE)}]
    /\ startup = <<>>
    /\ IdleTools
    /\ IdleWatcher
    /\ IdleResponder

NextInteractive == Interactive

SpecInteractive == InitInteractive /\ [][NextInteractive]_vars

(***************************************************************************)
(* notify.py: validate_webhook_url and send_webhook.  A hostname is the   *)
(* sequence of its labels; an address is its family with its numbers, the *)
(* four octets of IPv4 or the eight groups of IPv6                        *)
(***************************************************************************)
IPv4(a, b, c, d) == [v |-> 4, parts |-> <<a, b, c, d>>]
IPv6(first, last) == [v |-> 6, parts |-> <<first, 0, 0, 0, 0, 0, 0, last>>]

\* _PRIVATE_IP_PREFIXES, lines 86-96, matched by str.startswith at line
\* 148 against the text of the address: each prefix is decimal numbers
\* followed by dots, which the text of an IPv6 address never starts with
StartsWithPrivatePrefix(ip) ==
    /\ ip.v = 4
    /\ \/ ip.parts[1] \in {10, 127, 0}
       \/ ip.parts[1] = 172 /\ ip.parts[2] \in 16..31
       \/ ip.parts[1] = 192 /\ ip.parts[2] = 168
       \/ ip.parts[1] = 169 /\ ip.parts[2] = 254

\* _PRIVATE_HOSTNAMES, lines 98-104
PRIVATE_HOSTNAMES ==
    {<<"localhost">>, <<"localhost", "localdomain">>, <<"local">>,
     <<"internal">>, <<"intranet">>}

\* str.lower on a label, line 131 (urlparse lowers the hostname as well)
Lower(label) == IF label = "LOCALHOST" THEN "localhost" ELSE label

LowerName(hostname) == [i \in 1..Len(hostname) |-> Lower(hostname[i])]

\* line 135: the hostname is private_host or ends with "." + private_host
EndsWithName(hostname, private_host) ==
    /\ Len(private_host) <= Len(hostname)
    /\ SubSeq(hostname, Len(hostname) - Len(private_host) + 1,
              Len(hostname)) = private_host

\* validate_webhook_url, lines 107-156, where resolved is what
\* socket.getaddrinfo gives for the hostname: ok is FALSE for gaierror
validate_webhook_url(url, resolved) ==
    IF url.scheme \notin {"http", "https"} THEN FALSE
    ELSE IF url.hostname = <<>> THEN FALSE
    ELSE IF \E private_host \in PRIVATE_HOSTNAMES :
               EndsWithName(LowerName(url.hostname), private_host)
    THEN FALSE
    ELSE IF resolved.ok /\ \E i \in 1..Len(resolved.addr_info) :
               StartsWithPrivatePrefix(resolved.addr_info[i])
    THEN FALSE
    ELSE TRUE

\* send_webhook, lines 159-280: posts counts the calls of urlopen
send_webhook(call) ==
    IF ~validate_webhook_url(call.url, call.resolved)
    THEN [valid |-> FALSE, ret |-> FALSE, posts |-> 0]
    ELSE [valid |-> TRUE, ret |-> call.response \in {200, 204},
          posts |-> 1]

(***************************************************************************)
(* SpecWebhook: one call of send_webhook                                   *)
(***************************************************************************)
MaxWebhookCalls == 1

Schemes == {"http", "https", "ftp", "file"}

\* the names a webhook URL is given
Names ==
    {<<>>, <<"hooks", "example", "com">>, <<"localhost">>, <<"LOCALHOST">>,
     <<"db", "internal">>, <<"printer", "local">>, <<"internal", "example">>}

\* the addresses a URL is given as its host
Literals ==
    {IPv4(10, 0, 0, 1), IPv4(127, 0, 0, 1), IPv4(192, 168, 1, 1),
     IPv4(172, 20, 0, 1), IPv4(169, 254, 169, 254), IPv4(8, 8, 8, 8),
     IPv4(172, 32, 0, 1), IPv6(0, 1), IPv6(65152, 1), IPv6(64768, 1),
     IPv6(9734, 4369)}

\* what the resolver may answer for a name
Answers ==
    {[ok |-> FALSE, addr_info |-> <<>>],
     [ok |-> TRUE, addr_info |-> <<IPv4(8, 8, 8, 8)>>],
     [ok |-> TRUE, addr_info |-> <<IPv4(8, 8, 8, 8), IPv4(10, 0, 0, 1)>>],
     [ok |-> TRUE, addr_info |-> <<IPv6(0, 1), IPv4(127, 0, 0, 1)>>],
     [ok |-> TRUE, addr_info |-> <<IPv6(9734, 4369)>>],
     [ok |-> TRUE, addr_info |-> <<IPv6(0, 1)>>]}

\* the hostname of a URL whose host is an address: the labels of its text
HostText(ip) ==
    IF ip.v = 4 THEN [i \in 1..4 |-> ToString(ip.parts[i])]
    ELSE <<ToString(ip.parts)>>

\* a URL with its resolution: an address resolves to itself
Targets ==
    {[url |-> [scheme |-> scheme, hostname |-> name], resolved |-> answer] :
        scheme \in Schemes, name \in Names, answer \in Answers}
    \cup
    {[url |-> [scheme |-> scheme, hostname |-> HostText(ip)],
      resolved |-> [ok |-> TRUE, addr_info |-> <<ip>>]] :
        scheme \in Schemes, ip \in Literals}

WebhookCalls ==
    {[url |-> target.url, resolved |-> target.resolved,
      response |-> response] :
        target \in Targets, response \in {200, 204, 500}}

\* the call is made and returns
Webhook ==
    /\ notice.calls < MaxWebhookCalls
    /\ notice' = [notice EXCEPT !.calls = @ + 1,
                                !.result = send_webhook(notice.call)]
    /\ UNCHANGED <<watchVars, responderVars, now, ticks, startup, toolVars>>

InitWebhook ==
    /\ notice \in [call : WebhookCalls, calls : {0},
                    result : {[valid |-> FALSE, ret |-> FALSE, posts |-> 0]}]
    /\ startup = <<>>
    /\ IdleTools
    /\ IdleWatcher
    /\ IdleResponder

NextWebhook == Webhook

SpecWebhook == InitWebhook /\ [][NextWebhook]_vars

(***************************************************************************)
(* responder.py: the choice of the address the server binds               *)
(***************************************************************************)
\* main, line 482: range(5)
DISCOVERY_ATTEMPTS == 5
\* main, line 489: time.sleep(2)
DISCOVERY_WAIT == 2

\* get_tailscale_ip taking the first address of the interfaces, whatever
\* its range
get_tailscale_ip_first(ts, ic) ==
    IF ts.ok /\ ts.out # NoHost THEN ts.out
    ELSE IF ic.ok /\ ic.inet # <<>> THEN ic.inet[1]
    ELSE NoHost

\* get_tailscale_ip, lines 188-219: ts is the outcome of `tailscale ip -4`
\* (ok: return code 0, out: its stripped output) and ic that of ifconfig
get_tailscale_ip(ts, ic) ==
    IF ts.ok /\ ts.out # NoHost THEN ts.out
    ELSE IF ic.ok THEN FirstInet(ic.inet)
    ELSE NoHost

(***************************************************************************)
(* SpecStartup: one start of the responder, main lines 478-514             *)
(***************************************************************************)
TailscaleIpAnswers ==
    {[ok |-> FALSE, out |-> NoHost], [ok |-> TRUE, out |-> NoHost],
     [ok |-> TRUE, out |-> OverlayIP]}

NoAnswer == [ts |-> [ok |-> FALSE, out |-> NoHost],
             ic |-> [ok |-> FALSE, inet |-> <<>>]]

Arguments ==
    [host : {NoHost, LanIP}, allow_localhost : BOOLEAN, daemon : BOOLEAN]

\* lines 478-480: the start with its arguments
Started(args) ==
    [args |-> args, pc |-> IF args.host # NoHost THEN "run" ELSE "discover",
     attempt |-> 0, host |-> args.host, seen |-> NoAnswer,
     warned |-> FALSE, bound |-> NoHost, code |-> 0]

\* lines 482-489: one attempt of the discovery, with its wait when it fails
\* and is not the last
Discover(ts, ic) ==
    /\ startup.pc = "discover"
    /\ startup.attempt < DISCOVERY_ATTEMPTS
    /\ \E ip \in {get_tailscale_ip(ts, ic)} :
          /\ startup' = [startup EXCEPT
                !.attempt = @ + 1,
                !.host = ip,
                !.seen = [ts |-> ts, ic |-> ic],
                !.pc = IF ip # NoHost THEN "run"
                       ELSE IF startup.attempt + 1 < DISCOVERY_ATTEMPTS
                       THEN "discover" ELSE "decide"]
          /\ now' = IF ip = NoHost
                       /\ startup.attempt + 1 < DISCOVERY_ATTEMPTS
                    THEN now + Sec(DISCOVERY_WAIT) ELSE now
    /\ UNCHANGED <<watchVars, responderVars, ticks, notice, toolVars>>

\* lines 491-503: no address and no --allow-localhost, sys.exit(1)
Refuse ==
    /\ startup.pc = "decide"
    /\ ~startup.args.allow_localhost
    /\ startup' = [startup EXCEPT !.pc = "exited", !.code = 1]
    /\ UNCHANGED <<watchVars, responderVars, now, ticks, notice, toolVars>>

\* lines 505-508: the fallback of --allow-localhost, with its warning
Fallback ==
    /\ startup.pc = "decide"
    /\ startup.args.allow_localhost
    /\ startup' = [startup EXCEPT !.pc = "run", !.host = Loopback,
                                  !.warned = TRUE]
    /\ UNCHANGED <<watchVars, responderVars, now, ticks, notice, toolVars>>

\* lines 510-514 and run_server, line 349: the server binds the host
Bind ==
    /\ startup.pc = "run"
    /\ startup' = [startup EXCEPT !.pc = "serving", !.bound = startup.host]
    /\ UNCHANGED <<watchVars, responderVars, now, ticks, notice, toolVars>>

InitStartup ==
    /\ startup \in {Started(args) : args \in Arguments}
    /\ notice = <<>>
    /\ IdleTools
    /\ IdleWatcher
    /\ IdleResponder

NextStartup ==
    \/ \E ts \in TailscaleIpAnswers, ic \in IfconfigAnswers : Discover(ts, ic)
    \/ Refuse
    \/ Fallback
    \/ Bind

SpecStartup == InitStartup /\ [][NextStartup]_vars

(***************************************************************************)
(* safety.py.  A command is the sequence of its lexemes, blanks and line   *)
(* ends included; a pattern is the sequence of the elements of its regular *)
(* expression: a lexeme out of a set, \s+, \s, \s*, .*, ^, $, \b, (?!\w)    *)
(***************************************************************************)
Lit(set) == [k |-> "lit", s |-> set]
Ws == [k |-> "ws", s |-> {}]
Ws1 == [k |-> "ws1", s |-> {}]
Ws0 == [k |-> "ws0", s |-> {}]
AnyText == [k |-> "any", s |-> {}]
Bol == [k |-> "bol", s |-> {}]
Eol == [k |-> "eol", s |-> {}]
Wb == [k |-> "wb", s |-> {}]
NotWord == [k |-> "notword", s |-> {}]

\* re.IGNORECASE on a lexeme
Fold(lexeme) ==
    CASE lexeme = "GIT" -> "git"
      [] lexeme = "RESET" -> "reset"
      [] lexeme = "--HARD" -> "--hard"
      [] lexeme = "drop" -> "DROP"
      [] lexeme = "database" -> "DATABASE"
      [] OTHER -> lexeme

\* \s matches a blank and a line end
IsSpace(lexeme) == lexeme \in {" ", "\n"}

\* whether the lexeme starts, and ends, with a character of \w
StartsWord(lexeme) ==
    lexeme \notin {" ", "\n", "/", "~", "~/", ".", "*", "-f", "-rf", "-la",
                   "-fd", "-xfd", "--force", "-with-lease", "--hard",
                   "--HARD", "-d", "-r", "--quiet", ".claude/settings.json",
                   "-branch"}
EndsWord(lexeme) == lexeme \notin {" ", "\n", "/", "~", "~/", ".", "*"}

\* whether position i of the command lies between a \w character and a
\* character that is not one
Boundary(command, i) ==
    (i > 1 /\ EndsWord(command[i - 1]))
        # (i <= Len(command) /\ StartsWord(command[i]))

\* whether the pattern matches the command from position i on
RECURSIVE MatchFrom(_, _, _)
MatchFrom(pattern, command, i) ==
    IF pattern = <<>> THEN TRUE
    ELSE CASE pattern[1].k = "lit" ->
                /\ i <= Len(command)
                /\ Fold(command[i]) \in pattern[1].s
                /\ MatchFrom(Tail(pattern), command, i + 1)
           [] pattern[1].k = "ws" ->
                /\ i <= Len(command)
                /\ IsSpace(command[i])
                /\ \/ MatchFrom(Tail(pattern), command, i + 1)
                   \/ MatchFrom(pattern, command, i + 1)
           [] pattern[1].k = "ws1" ->
                /\ i <= Len(command)
                /\ IsSpace(command[i])
                /\ MatchFrom(Tail(pattern), command, i + 1)
           [] pattern[1].k = "ws0" ->
                \/ MatchFrom(Tail(pattern), command, i)
                \/ /\ i <= Len(command)
                   /\ IsSpace(command[i])
                   /\ MatchFrom(pattern, command, i + 1)
           [] pattern[1].k = "any" ->
                \/ MatchFrom(Tail(pattern), command, i)
                \/ /\ i <= Len(command)
                   /\ command[i] # "\n"
                   /\ MatchFrom(pattern, command, i + 1)
           [] pattern[1].k = "bol" ->
                /\ i = 1 \/ command[i - 1] = "\n"
                /\ MatchFrom(Tail(pattern), command, i)
           [] pattern[1].k = "eol" ->
                /\ i = Len(command) + 1 \/ command[i] = "\n"
                /\ MatchFrom(Tail(pattern), command, i)
           [] pattern[1].k = "wb" ->
                /\ Boundary(command, i)
                /\ MatchFrom(Tail(pattern), command, i)
           [] pattern[1].k = "notword" ->
                /\ i > Len(command) \/ ~StartsWord(command[i])
                /\ MatchFrom(Tail(pattern), command, i)

\* re.search(pattern, command, re.IGNORECASE | re.MULTILINE), line 146
Search(pattern, command) ==
    \E i \in 1..(Len(command) + 1) : MatchFrom(pattern, command, i)

Entry(pattern, reason) == [pattern |-> pattern, reason |-> reason]
Category(name, list) == [category |-> name, list |-> list]

\* BLOCKED_PATTERNS, lines 39-84
BLOCKED_PATTERNS ==
    <<Category("git_force",
        <<Entry(<<Lit({"git"}), Ws, Lit({"push"}), Ws, AnyText, Lit({"--force"})>>,
                "Force push can overwrite remote history"),
          Entry(<<Lit({"git"}), Ws, Lit({"push"}), Ws, Lit({"-f"}), Ws1>>,
                "Force push can overwrite remote history"),
          Entry(<<Lit({"git"}), Ws, Lit({"push"}), Ws, Lit({"--force"}),
                  Lit({"-with-lease"})>>,
                "Force push can overwrite remote history")>>),
      Category("git_destructive",
        <<Entry(<<Lit({"git"}), Ws, Lit({"reset"}), Ws, Lit({"--hard"})>>,
                "Hard reset discards uncommitted changes"),
          Entry(<<Lit({"git"}), Ws, Lit({"clean"}), Ws, Lit({"-fd"})>>,
                "Clean -fd deletes untracked files"),
          Entry(<<Lit({"git"}), Ws, Lit({"clean"}), Ws, Lit({"-fd", "-xfd"})>>,
                "Clean with -f and -d deletes files"),
          Entry(<<Lit({"git"}), Ws, Lit({"branch"}), Ws, Lit({"-d"}), Ws,
                  Lit({"main", "master"}), Wb>>,
                "Deleting main/master branch")>>),
      Category("filesystem",
        <<Entry(<<Lit({"rm"}), Ws, Lit({"-rf"}), Ws, Lit({"/"}), NotWord>>,
                "Deleting root filesystem"),
          Entry(<<Lit({"rm"}), Ws, Lit({"-rf"}), Ws, Lit({"~", "~/"})>>,
                "Deleting home directory"),
          Entry(<<Lit({"rm"}), Ws, Lit({"-rf"}), Ws, Lit({"."}), Ws0, Eol>>,
                "Deleting current directory recursively"),
          Entry(<<Lit({"rm"}), Ws, Lit({"-rf"}), Ws, Lit({"*"})>>,
                "Deleting all files recursively"),
          Entry(<<Lit({"chmod"}), Ws, Lit({"777"}), Ws, Lit({"/"})>>,
                "Setting world-writable permissions on root")>>),
      Category("safety_bypass",
        <<Entry(<<Lit({".claude/settings.json"})>>,
                "Modifying Claude settings/hooks"),
          Entry(<<Lit({".claude/settings.local.json"})>>,
                "Modifying Claude local settings"),
          Entry(<<Lit({".git/hooks/pre-commit"})>>,
                "Modifying git pre-commit hook"),
          Entry(<<Lit({".git/hooks/pre-push"})>>,
                "Modifying git pre-push hook"),
          Entry(<<Lit({".git/hooks/commit-msg"})>>,
                "Modifying git commit-msg hook"),
          Entry(<<Lit({"hooks/safety.py"})>>, "Modifying safety hook"),
          Entry(<<Lit({"hooks/safety_config.yaml"})>>,
                "Modifying safety config")>>),
      Category("database_destructive",
        <<Entry(<<Lit({"DROP"}), Ws, Lit({"DATABASE"})>>, "Dropping database"),
          Entry(<<Lit({"DROP"}), Ws, Lit({"SCHEMA"})>>, "Dropping schema"),
          Entry(<<Lit({"TRUNCATE"}), Ws, Lit({"TABLE"})>>,
                "Truncating table")>>),
      Category("gcp_destructive",
        <<Entry(<<Lit({"gcloud"}), Ws, Lit({"projects"}), Ws, Lit({"delete"})>>,
                "Deleting GCP project"),
          Entry(<<Lit({"gcloud"}), Ws, Lit({"iam"}), Ws, AnyText,
                  Lit({"remove-iam-policy-binding"})>>,
                "Removing IAM bindings"),
          Entry(<<Lit({"gcloud"}), Ws, Lit({"compute"}), Ws,
                  Lit({"instances"}), Ws, Lit({"delete"})>>,
                "Deleting compute instances"),
          Entry(<<Lit({"gcloud"}), Ws, Lit({"sql"}), Ws, Lit({"instances"}),
                  Ws, Lit({"delete"})>>,
                "Deleting SQL instances"),
          Entry(<<Lit({"gcloud"}), Ws, Lit({"storage"}), Ws, AnyText, Lit({"rm"}),
                  Ws, Lit({"-r"})>>,
                "Recursively deleting storage")>>)>>

\* ESCALATE_PATTERNS, lines 87-110; an alternation of sequences, as in
\* (alembic|flask\s+db), is written as one entry for each alternative
ESCALATE_PATTERNS ==
    <<Category("git_push_protected",
        <<Entry(<<Lit({"git"}), Ws, Lit({"push"}), Ws, AnyText, Wb,
                  Lit({"main", "master"}), Wb>>,
                "Pushing to protected branch"),
          Entry(<<Lit({"git"}), Ws, Lit({"push"}), Ws, Lit({"origin"}), Ws,
                  Lit({"main", "master"})>>,
                "Pushing to main/master")>>),
      Category("pulumi",
        <<Entry(<<Bol, Lit({"pulumi"}), Ws>>, "Pulumi infrastructure command"),
          Entry(<<Wb, Lit({"pulumi"}), Ws, Lit({"up", "destroy", "preview"})>>,
                "Pulumi state-changing command")>>),
      Category("terraform",
        <<Entry(<<Bol, Lit({"terraform"}), Ws, Lit({"apply", "destroy"})>>,
                "Terraform state-changing command")>>),
      Category("database_migrations",
        <<Entry(<<Lit({"alembic"}), Ws, Lit({"upgrade", "downgrade"})>>,
                "Database migration"),
          Entry(<<Lit({"flask"}), Ws, Lit({"db"}), Ws,
                  Lit({"upgrade", "downgrade"})>>,
                "Database migration"),
          Entry(<<Lit({"prisma"}), Ws, Lit({"migrate"})>>, "Prisma migration"),
          Entry(<<Lit({"prisma"}), Ws, Lit({"db"}), Ws, Lit({"push"})>>,
                "Prisma migration")>>),
      Category("kubernetes",
        <<Entry(<<Lit({"kubectl"}), Ws, Lit({"delete"})>>,
                "Kubernetes delete command"),
          Entry(<<Lit({"kubectl"}), Ws, Lit({"apply"}), AnyText, Lit({"--force"})>>,
                "Kubernetes force apply")>>),
      Category("gcp_quiet",
        <<Entry(<<Lit({"gcloud"}), Ws, AnyText, Lit({"--quiet"})>>,
                "GCP command with --quiet flag")>>)>>

\* dict assignment, lines 126 and 130: the list of a category that exists
\* is replaced where it stands, a new category comes last
Assign(patterns, name, list) ==
    IF \E i \in 1..Len(patterns) : patterns[i].category = name
    THEN [i \in 1..Len(patterns) |->
            IF patterns[i].category = name THEN Category(name, list)
            ELSE patterns[i]]
    ELSE Append(patterns, Category(name, list))

\* load_custom_config, lines 113-135: config is the content of
\* safety_config.yaml, a sequence of categories for each table, both empty
\* when the file does not exist or cannot be read
RECURSIVE AssignAll(_, _)
AssignAll(patterns, custom) ==
    IF custom = <<>> THEN patterns
    ELSE AssignAll(Assign(patterns, custom[1].category, custom[1].list),
                   Tail(custom))

load_custom_config(config) ==
    [blocked |-> AssignAll(BLOCKED_PATTERNS, config.blocked),
     escalate |-> AssignAll(ESCALATE_PATTERNS, config.escalate)]

NoMatch == [category |-> "", reason |-> ""]

\* the first entry of the list that the command matches, lines 145-147
RECURSIVE FirstEntry(_, _, _)
FirstEntry(name, list, command) ==
    IF list = <<>> THEN NoMatch
    ELSE IF Search(list[1].pattern, command)
    THEN [category |-> name, reason |-> list[1].reason]
    ELSE FirstEntry(name, Tail(list), command)

\* check_command, lines 138-148
RECURSIVE check_command(_, _)
check_command(command, patterns) ==
    IF patterns = <<>> THEN NoMatch
    ELSE IF FirstEntry(patterns[1].category, patterns[1].list, command)
              # NoMatch
    THEN FirstEntry(patterns[1].category, patterns[1].list, command)
    ELSE check_command(command, Tail(patterns))

\* what a run of the hook leaves: its exit status, the decision it prints,
\* the line it logs and the exception that ends it
Verdict(code, decision, match, logged, raised) ==
    [code |-> code, decision |-> decision, category |-> match.category,
     reason |-> match.reason, logged |-> logged, raised |-> raised]

\* lines 182-188 and 192-199 with log_decision, lines 151-160, which
\* raises when the log directory or the log file cannot be written
Decided(input, decision, code, match) ==
    IF ~input.log_ok THEN Verdict(1, "", NoMatch, "", "OSError")
    ELSE Verdict(code, IF decision = "blocked" THEN "block" ELSE "",
                 match, decision, "")

\* lines 178-202 for the tables loaded
Judged(input, tables) ==
    IF check_command(input.command, tables.blocked) # NoMatch
    THEN Decided(input, "blocked", 0,
                 check_command(input.command, tables.blocked))
    ELSE IF check_command(input.command, tables.escalate) # NoMatch
    THEN Decided(input, "escalate", 2,
                 check_command(input.command, tables.escalate))
    ELSE Verdict(0, "", NoMatch, "", "")

\* main, lines 163-207.  input.json is "invalid" for a text that is not
\* JSON, "other" for JSON that is not an object, "object" otherwise;
\* tool_input is "object", or "other" for a value that is not an object;
\* command is a sequence of lexemes, or "other" in kind for a value that is
\* not a string
main(input) ==
    IF input.json = "invalid" THEN Verdict(0, "", NoMatch, "", "")
    ELSE IF input.json = "other"
    THEN Verdict(1, "", NoMatch, "", "AttributeError")
    ELSE IF input.tool_name # "Bash" THEN Verdict(0, "", NoMatch, "", "")
    ELSE IF input.tool_input = "other"
    THEN Verdict(1, "", NoMatch, "", "AttributeError")
    ELSE IF input.kind = "string" /\ input.command = <<>>
    THEN Verdict(0, "", NoMatch, "", "")
    ELSE IF input.kind = "other"
    THEN Verdict(1, "", NoMatch, "", "TypeError")
    ELSE Judged(input, load_custom_config(input.config))

(***************************************************************************)
(* SpecSafety: runs of the hook                                            *)
(***************************************************************************)
MaxHookRuns == 1
MaxSweepTicks == 2
MaxSweepRequests == 11

Sp == " "

SafetyCommands ==
    {<<>>,
     <<"ls", Sp, "-la">>,
     <<"git", Sp, "push", Sp, "origin", Sp, "feature", "-branch">>,
     <<"git", Sp, "push", Sp, "--force", Sp, "origin", Sp, "main">>,
     <<"git", Sp, "push", Sp, "--force", "-with-lease">>,
     <<"git", Sp, "push", Sp, "origin", Sp, "main">>,
     <<"git", Sp, "push", Sp, "origin", Sp, "main", "-branch">>,
     <<"GIT", Sp, "RESET", Sp, "--HARD">>,
     <<"git", Sp, "clean", Sp, "-fd">>,
     <<"git", Sp, "clean", Sp, "-xfd">>,
     <<"rm", Sp, "-rf", Sp, "/">>,
     <<"rm", Sp, "-rf", Sp, "/", "tmp">>,
     <<"rm", Sp, "-rf", Sp, ".", Sp>>,
     <<"vim", Sp, "~/", ".claude/settings.json">>,
     <<"drop", Sp, "database">>,
     <<"pulumi", Sp, "up">>,
     <<"echo", Sp, "ok", "\n", "pulumi", Sp, "stack">>,
     <<"cd", Sp, "infra", Sp, "&&", Sp, "pulumi", Sp, "preview">>,
     <<"cd", Sp, "infra", Sp, "&&", Sp, "terraform", Sp, "apply">>,
     <<"terraform", Sp, "apply">>,
     <<"kubectl", Sp, "delete", Sp, "pod">>,
     <<"gcloud", Sp, "projects", Sp, "delete", Sp, "p", Sp, "--quiet">>,
     <<"gcloud", Sp, "projects", Sp, "list", Sp, "--quiet">>,
     <<"docker", Sp, "system", Sp, "prune">>}

NoConfig == [blocked |-> <<>>, escalate |-> <<>>]

\* a safety_config.yaml that adds a blocked category and replaces the
\* pulumi category of the escalations
CustomConfig ==
    [blocked |->
        <<Category("docker",
            <<Entry(<<Lit({"docker"}), Ws, Lit({"system"}), Ws,
                      Lit({"prune"})>>, "Pruning docker")>>)>>,
     escalate |->
        <<Category("pulumi",
            <<Entry(<<Lit({"pulumi"}), Ws, Lit({"destroy"})>>,
                    "Pulumi destroy")>>)>>]

HookInputs ==
    {[json |-> "invalid", tool_name |-> "", tool_input |-> "object",
      kind |-> "string", command |-> <<>>, config |-> NoConfig,
      log_ok |-> TRUE],
     [json |-> "other", tool_name |-> "", tool_input |-> "object",
      kind |-> "string", command |-> <<>>, config |-> NoConfig,
      log_ok |-> TRUE]}
    \cup
    {[json |-> "object", tool_name |-> tool_name, tool_input |-> tool_input,
      kind |-> kind, command |-> command, config |-> config,
      log_ok |-> log_ok] :
        tool_name \in {"Bash", "Read", ""},
        tool_input \in {"object", "other"},
        kind \in {"string", "other"},
        command \in SafetyCommands,
        config \in {NoConfig, CustomConfig},
        log_ok \in BOOLEAN}

\* the hook runs and exits
RunHook ==
    /\ hook.runs < MaxHookRuns
    /\ hook' = [hook EXCEPT !.runs = @ + 1, !.verdict = main(hook.input)]
    /\ UNCHANGED <<watchVars, responderVars, now, ticks, notice, startup,
                   scan, keys>>

InitSafety ==
    /\ hook \in [input : HookInputs, runs : {0},
                  verdict : {Verdict(0, "", NoMatch, "", "")}]
    /\ scan = <<>>
    /\ keys = <<>>
    /\ notice = <<>>
    /\ startup = <<>>
    /\ IdleWatcher
    /\ IdleResponder

NextSafety == RunHook

SpecSafety == InitSafety /\ [][NextSafety]_vars

(***************************************************************************)
(* Properties                                                              *)
(***************************************************************************)
\* the tracker entry of an address, empty when it has none
TrackerOf(ip) ==
    IF ip \in DOMAIN rate_limit_tracker THEN rate_limit_tracker[ip] ELSE <<>>

\* the admissions of an address inside the window that ends now
InWindow(timestamps) == Newer(timestamps, now - Sec(RATE_LIMIT_WINDOW))

\* the token carries the payload and signature of a token generate_token issued
Authentic(token) ==
    \E r \in Issued : B64Decode(token) = B64Decode(r.token)

\* the token has four fields and a timestamp more than TOKEN_EXPIRY_SECONDS old
Expired(token) ==
    /\ B64Decode(token).ok
    /\ Len(Split(B64Decode(token).data)) = 4
    /\ ParseFloat(Split(B64Decode(token).data)[3]).ok
    /\ now - ParseFloat(Split(B64Decode(token).data)[3]).val
          > Sec(TOKEN_EXPIRY_SECONDS)

ValidateNow(token) == validate_token(token, now, USED_TOKENS, LAST_CLEANUP)

\* C1: a token that validate_token has accepted once is never accepted again,
\* whatever time passes and whenever the used-token set is cleared.
C1_AcceptedAtMostOnce == ~(lastReq.valid /\ lastReq.again)

\* C2: of the threads handling the same token at the same time at most one
\* passes validation, and no token is forwarded by two of them.
C2_OneThreadPerToken ==
    /\ \A t1 \in Threads, t2 \in Threads :
          (/\ t1 # t2
           /\ threads[t1].pc \in {"mark", "forward"}
           /\ threads[t2].pc \in {"mark", "forward"})
          => threads[t1].token # threads[t2].token
    /\ lastReq.sent => ~lastReq.resent

\* C3: once a token for yes has been forwarded, every later request with that
\* token is answered with an error and forwards no keystroke.
C3_ForwardedOnce ==
    (lastReq.resent /\ TokenAction(lastReq.token) = <<"yes">>)
        => (lastReq.status = 403 /\ ~lastReq.sent)

\* C4: a keystroke is forwarded only by a /respond request whose token was
\* accepted in that request and carries an issued payload, to the session the
\* token was issued for, which exists, and the key is the ACTION_KEYS entry of
\* the action the token was issued for; a token accepted for an action without
\* an entry forwards nothing.
C4_ForwardOnlyAuthorized ==
    /\ [](lastReq.sent =>
            /\ lastReq.path = "/respond"
            /\ lastReq.validated /\ lastReq.valid
            /\ lastReq.keys \in {"y", "n", "!", "s", "a"}
            /\ \E r \in Issued :
                  /\ B64Decode(lastReq.token) = B64Decode(r.token)
                  /\ lastReq.session = r.session
                  /\ lastReq.keys = ACTION_KEYS(r.action))
    /\ []((lastReq.valid /\ ACTION_KEYS(lastReq.action) = "") => ~lastReq.sent)
    /\ [][(lastReq' # lastReq /\ lastReq'.sent) =>
            /\ lastReq'.session \in tmuxSessions'
            /\ lastReq'.token \in USED_TOKENS']_vars

C4_Witness ==
    lastReq.sent /\ lastReq.status = 200 /\ lastReq.keys = "y"
        /\ lastReq.session = <<"rc-a">>

\* C5: a token whose timestamp is more than TOKEN_EXPIRY_SECONDS before the
\* time of validation is rejected as "Token expired", whether its signature is
\* genuine or not and whether it was accepted before or not.
C5_ExpiredAlwaysRejected ==
    /\ \A token \in RequestTokens :
          Expired(token) =>
              /\ ~ValidateNow(token).valid
              /\ ValidateNow(token).error = "Token expired"
    /\ lastReq.error = "Token expired" => (~lastReq.valid /\ ~lastReq.sent)

C5_Witness ==
    /\ lastReq.error = "Token expired"
    /\ lastReq.again
    /\ \E token \in RequestTokens : Expired(token) /\ ~Authentic(token)

\* C6: for every session name and action, the token generate_token has just
\* issued validates to exactly that session and action, and a token accepted
\* once is refused as "Token already used" from then on.
C6_RoundTrip ==
    /\ \A r \in Issued :
          (r.at = now /\ r.token \notin accepted) =>
              /\ ValidateNow(r.token).valid
              /\ ValidateNow(r.token).session = r.session
              /\ ValidateNow(r.token).action = r.action
    /\ (lastReq.validated /\ lastReq.again) =>
          lastReq.error = "Token already used"

\* C7: a token whose fields or signature are not those of an issued token is
\* rejected by validate_token and never enters the used-token set.
C7_TamperedRejected ==
    /\ \A token \in RequestTokens :
          ~Authentic(token) =>
              /\ ~ValidateNow(token).valid
              /\ token \notin ValidateNow(token).USED_TOKENS
    /\ \A token \in USED_TOKENS : Authentic(token)
    /\ lastReq.valid => Authentic(lastReq.token)

C7_Witness ==
    /\ lastReq.error = "Invalid signature"
    /\ B64Decode(lastReq.token).ok
    /\ TokenAction(lastReq.token) = <<"no">>

\* C8: for each address the limiter admits a request exactly when fewer than
\* RATE_LIMIT_REQUESTS requests of that address were admitted in the last
\* RATE_LIMIT_WINDOW seconds, so that no window holds more admissions than
\* that; the decision depends on that address's own admissions alone.
C8_QuotaPerWindow ==
    \A ip \in AllClients :
        /\ Len(InWindow(admitted[ip])) <= RATE_LIMIT_REQUESTS
        /\ InWindow(TrackerOf(ip)) = InWindow(admitted[ip])
        /\ check_rate_limit(ip, now, rate_limit_tracker,
                            rate_limit_last_cleanup).allowed
              <=> Len(InWindow(admitted[ip])) < RATE_LIMIT_REQUESTS

C8_Witness ==
    /\ lastReq.limited
    /\ Len(InWindow(admitted[lastReq.ip])) = RATE_LIMIT_REQUESTS
    /\ \E ip \in AllClients :
          /\ ip # lastReq.ip
          /\ check_rate_limit(ip, now, rate_limit_tracker,
                              rate_limit_last_cleanup).allowed

\* C9: with the handler threads interleaved, every admitted request of the
\* current window is still recorded once the threads are done, and no window
\* holds more than RATE_LIMIT_REQUESTS admissions.
C9_NoAdmissionLost ==
    (\A t \in Threads : threads[t].pc = "idle") =>
        \A ip \in AllClients :
            /\ Len(InWindow(admitted[ip])) <= RATE_LIMIT_REQUESTS
            /\ Len(InWindow(TrackerOf(ip))) = Len(InWindow(admitted[ip]))

\* C10: a request answered 429 was not validated and forwarded nothing, and
\* the step that answers it leaves the used-token set as it was.
C10_LimitBeforeValidation ==
    /\ [](lastReq.limited =>
            /\ lastReq.status = 429
            /\ ~lastReq.validated /\ ~lastReq.valid /\ ~lastReq.sent)
    /\ [][(lastReq'.limited /\ lastReq' # lastReq) =>
            UNCHANGED <<USED_TOKENS, LAST_CLEANUP, accepted, forwarded>>]_vars

C10_Witness ==
    /\ lastReq.limited
    /\ lastReq.token \in IssuedTokens
    /\ lastReq.token \notin USED_TOKENS
    /\ ValidateNow(lastReq.token).valid

\* C11: a /respond request whose token is accepted while the token's session
\* does not exist is answered 404 and forwards no keystroke.
C11_MissingSessionIs404 ==
    [][(lastReq' # lastReq /\ lastReq'.valid
            /\ lastReq'.session \notin tmuxSessions') =>
          /\ lastReq'.status = 404
          /\ lastReq'.error = "Session not found"
          /\ ~lastReq'.sent /\ lastReq'.keys = ""
          /\ forwarded' = forwarded]_vars

C11_Witness ==
    /\ lastReq.status = 404 /\ lastReq.valid
    /\ lastReq.action = <<"yes">>
    /\ lastReq.session \notin tmuxSessions
    /\ lastReq.token \in USED_TOKENS


(***************************************************************************)
(* The watcher.  promptRun[s] is the prompt shown by every successful      *)
(* capture of session s since promptRun[s].since with the permission       *)
(* notifications sent for it; rateRun[s] is the same for the rate-limit    *)
(* signal; watchLog[s] is what the last pass did for session s.            *)
(***************************************************************************)
Emitted(s, type) ==
    \E i \in 1..Len(watchLog[s].out) : watchLog[s].out[i] = type

PromptShownFor(s) == now - promptRun[s].since

C13_PermissionOnlyAfterDebounce ==
    /\ [](\A s \in DOMAIN states :
            /\ Emitted(s, "permission") =>
                  /\ watchLog[s].captured
                  /\ extract_prompt_from_output(states[s].last_content)
                        = promptRun[s].text
                  /\ promptRun[s].text # NoPrompt
                  /\ now - promptRun[s].since >= Sec(PROMPT_NOTIFY_DELAY)
            /\ (watchLog[s].captured /\ promptRun[s].text = NoPrompt) =>
                  /\ states[s].last_prompt = NoPrompt
                  /\ states[s].prompt_detected_at = NoTime
                  /\ states[s].notified_prompt = NoPrompt
            /\ states[s].last_prompt = promptRun[s].text
            /\ states[s].prompt_detected_at = promptRun[s].since)
    /\ [][\A s \in WatchNames :
            (/\ watchLog'[s].captured
             /\ promptRun'[s].text # NoPrompt
             /\ promptRun'[s].text # promptRun[s].text)
                => /\ states'[s].prompt_detected_at = now'
                   /\ states'[s].last_prompt = promptRun'[s].text
                   /\ watchLog'[s].out # <<"permission">>]_vars

\* a permission notification for a prompt whose debounce started after
\* the first pass
C13_Witness ==
    \E s \in DOMAIN states :
        /\ Emitted(s, "permission")
        /\ promptRun[s].since > WatchStart + Sec(110)
        /\ now - promptRun[s].since >= Sec(PROMPT_NOTIFY_DELAY)

\* C14: in every pass with a successful capture in which the detected prompt
\* is parseable, has been the detected prompt for at least PROMPT_NOTIFY_DELAY
\* seconds, has not yet been notified, and at least 30 seconds have elapsed
\* since the last notification of the session, a permission notification is
\* emitted and the prompt is recorded as notified
C14_EligiblePromptNotified ==
    [][\A s \in DOMAIN states :
          (/\ watchLog'[s].captured
           /\ parse_permission_prompt(promptRun'[s].text).ok
           /\ now' - promptRun'[s].since >= Sec(PROMPT_NOTIFY_DELAY)
           /\ promptRun[s].sent = 0
           /\ now' - states[s].last_notification >= Sec(30))
              => /\ watchLog'[s].out = <<"permission">>
                 /\ states'[s].notified_prompt = promptRun'[s].text]_vars

SignalShownFor(s) == now - rateRun[s].since

\* C15: a rate_limit event is emitted for a session only if the rate-limit
\* signal was positive in every successful capture of at least the preceding
\* RATE_LIMIT_DEBOUNCE seconds, and never twice in one uninterrupted run of
\* positive signals
C15_EventOnlyAfterSustainedSignal ==
    \A s \in WatchNames :
        /\ Emitted(s, "rate_limit") =>
              /\ rateRun[s].since # NoTime
              /\ SignalShownFor(s) >= Sec(RATE_LIMIT_DEBOUNCE)
        /\ rateRun[s].events <= 1

\* the rate-limit count of session s before its state is created
CountOf(s) == IF s \in DOMAIN states THEN states[s].rate_limit_count ELSE 0

\* C16: in every pass with a successful capture, permission notification or
\* not, a positive rate-limit signal adds one to rate_limit_count and leaves
\* rate_limit_detected_at set, and a negative signal leaves
\* rate_limit_detected_at unset, rate_limit_notified false and
\* rate_limit_count 0
C16_RateCheckEveryPass ==
    [][\A s \in WatchNames :
          watchLog'[s].captured =>
              IF is_rate_limited(states'[s].last_content)
              THEN /\ states'[s].rate_limit_count = CountOf(s) + 1
                   /\ states'[s].rate_limit_detected_at # NoTime
              ELSE /\ states'[s].rate_limit_detected_at = NoTime
                   /\ ~states'[s].rate_limit_notified
                   /\ states'[s].rate_limit_count = 0]_vars

\* C17: under the mode auto with another account configured, once the
\* rate-limit signal has been positive in every successful capture for at
\* least RATE_LIMIT_DEBOUNCE seconds, exactly one switch has been invoked and
\* exactly one outcome notification sent for it
C17_AutoSwitchesOnce ==
    \A s \in WatchNames :
        (/\ watchLog[s].captured
         /\ rateRun[s].since # NoTime
         /\ SignalShownFor(s) >= Sec(RATE_LIMIT_DEBOUNCE)
         /\ rateRun[s].auto)
            => rateRun[s].switches = 1 /\ rateRun[s].notes = 1

\* C18: a rate_limit event is handled by the configured mode: manual makes no
\* call; notify sends one notification and invokes no switch; auto with no
\* other account sends one notification and invokes no switch; auto with
\* another account invokes the switch once and then sends one notification
\* that reports whether it succeeded, failed or raised
C18_HandledByMode ==
    \A s \in WatchNames :
        watchLog[s].out = <<"rate_limit">> =>
            CASE watchLog[s].mode = "manual" -> watchLog[s].calls = <<>>
              [] watchLog[s].mode = "notify" ->
                    watchLog[s].calls
                        = <<Notify("Rate Limit - Switch Account?")>>
              [] watchLog[s].mode = "auto" /\ watchLog[s].accounts = <<>> ->
                    watchLog[s].calls = <<Notify("Rate Limit - No Accounts")>>
              [] watchLog[s].mode = "auto" /\ watchLog[s].accounts # <<>> ->
                    /\ Len(watchLog[s].calls) = 2
                    /\ watchLog[s].calls[1]
                          = [call |-> "switch",
                             title |-> watchLog[s].accounts[1]]
                    /\ watchLog[s].calls[2]
                          = Notify(CASE watchLog[s].outcome = "ok" ->
                                            "Account Switched"
                                     [] watchLog[s].outcome = "fail" ->
                                            "Auto-Switch Failed"
                                     [] watchLog[s].outcome = "raise" ->
                                            "Auto-Switch Error")

\* a rate_limit event under the mode auto whose switch raises
C18_Witness ==
    \E s \in WatchNames :
        /\ watchLog[s].out = <<"rate_limit">>
        /\ watchLog[s].mode = "auto"
        /\ watchLog[s].outcome = "raise"
        /\ Len(watchLog[s].calls) = 2

\* C19: one pass yields at most one of permission, rate_limit, waiting and
\* idle for a session, and makes the calls of that one only; a pass that emits
\* a permission notification emits no waiting notification
C19_OneOutcomePerPass ==
    \A s \in WatchNames :
        /\ Len(watchLog[s].out) <= 1
        /\ Emitted(s, "permission") =>
              /\ ~Emitted(s, "waiting")
              /\ Len(watchLog[s].calls) = 1
              /\ watchLog[s].calls[1].call = "send_interactive_notification"
        /\ watchLog[s].out = <<>> => watchLog[s].calls = <<>>

\* a permission notification for a screen that the waiting patterns match too
C19_Witness ==
    \E s \in DOMAIN states :
        /\ watchLog[s].out = <<"permission">>
        /\ is_waiting_for_input(states[s].last_content)
        /\ ~is_actively_working(states[s].last_content)

C21_WaitingNotified ==
    /\ [][\A s \in WatchNames :
            (/\ watchLog'[s].captured
             /\ episode'[s].waiting # NoTime
             /\ promptRun'[s].text = NoPrompt
             /\ rateRun'[s].since = NoTime
             /\ \/ episode[s].emitted = NoTime
                \/ now' - episode[s].emitted > Sec(60))
                => episode'[s].waited = 1]_vars
    /\ [](\A s \in WatchNames : episode[s].waited <= 1)

\* C22: an idle notification is emitted only when the captured content has
\* not changed for more than IDLE_THRESHOLD seconds and the session is not
\* waiting; while the content stays the same two idle notifications are at
\* least IDLE_THRESHOLD seconds apart; a change of content restarts the idle
\* period
C22_IdleOnlyAfterThreshold ==
    /\ [](\A s \in DOMAIN states :
            /\ Emitted(s, "idle") =>
                  /\ watchLog[s].captured
                  /\ now - episode[s].unchanged > Sec(IDLE_THRESHOLD)
                  /\ episode[s].waiting = NoTime
            /\ episode[s].shown # <<>> =>
                  /\ states[s].last_content = episode[s].shown
                  /\ states[s].last_change = episode[s].unchanged)
    /\ [][\A s \in WatchNames :
            /\ (watchLog'[s].out = <<"idle">> /\ episode[s].idled # NoTime
                   /\ episode'[s].idles > 1)
                  => now' - episode[s].idled >= Sec(IDLE_THRESHOLD)
            /\ (watchLog'[s].captured /\ episode'[s].shown # episode[s].shown)
                  => /\ episode'[s].unchanged = now'
                     /\ watchLog'[s].out # <<"idle">>]_vars

\* a second idle notification for the same unchanged content
C22_Witness ==
    \E s \in DOMAIN states :
        /\ Emitted(s, "idle")
        /\ episode[s].idles = 2
        /\ now - episode[s].unchanged > Sec(IDLE_THRESHOLD)

\* C23: whatever the polling interval, a notification or rate_limit event for
\* a session is emitted at least 30 seconds after the previous emission of
\* any kind for that session
C23_MinimumSpacing ==
    [][\A s \in WatchNames :
          (watchLog'[s].out # <<>> /\ episode[s].emitted # NoTime)
              => now' - episode[s].emitted >= Sec(30)]_vars

\* C24: at the end of every pass the state table holds exactly the sessions
\* of that pass's enumeration, and a session that was absent starts from a
\* fresh SessionState: its state is what check_session makes of a new
\* SessionState and the capture of that pass
C24_TableIsEnumeration ==
    /\ [](ticks > 0 =>
            DOMAIN states = {s \in WatchNames : watchLog[s].listed})
    /\ [][\A s \in WatchNames :
            (s \notin DOMAIN states /\ s \in DOMAIN states')
                => /\ watchLog'[s].fresh
                   /\ states'[s] =
                         IF watchLog'[s].captured
                         THEN check_session(SessionState(s, now'),
                                            states'[s].last_content, now',
                                            "manual", <<>>).state
                         ELSE SessionState(s, now')]_vars

\* a session that was notified as waiting, left the enumeration and came
\* back is notified as waiting again
C24_Witness ==
    \E s \in DOMAIN states :
        /\ ticks = 3
        /\ watchLog[s].fresh
        /\ Emitted(s, "waiting")
        /\ states[s].last_change = now

\* C25: when the capture of a session fails in a pass, its SessionState is
\* left as it was and nothing is emitted for it, and the other sessions of
\* the pass are checked
C25_FailedCaptureChangesNothing ==
    [][\A s \in WatchNames :
          /\ (watchLog'[s].listed /\ ~watchLog'[s].captured) =>
                /\ states'[s] = StateOf(s, now')
                /\ watchLog'[s].out = <<>>
                /\ watchLog'[s].calls = <<>>
                /\ promptRun'[s] = promptRun[s]
          /\ watchLog'[s].captured =>
                /\ "prompt" \in watchLog'[s].ran
                /\ states'[s].last_content \in Screens]_vars

\* the capture of one session fails after an earlier pass notified it, in a
\* pass that emits a notification for the other session
C25_Witness ==
    \E s \in DOMAIN states : \E o \in DOMAIN states \ {s} :
        /\ ~watchLog[s].captured
        /\ states[s].notified_waiting
        /\ watchLog[o].out # <<>>

\* C26: an emission makes at most one call of send_notification or
\* send_interactive_notification, and when that call returns failure the
\* notified flag set by check_session stays set, so that the prompt, the
\* rate-limit run or the waiting is not emitted again in the next pass
C26_AtMostOnceDelivery ==
    /\ [](\A s \in DOMAIN states :
            /\ Len(watchLog[s].calls) - Switches(watchLog[s].calls) <= 1
            /\ Emitted(s, "permission") =>
                  states[s].notified_prompt = promptRun[s].text
            /\ Emitted(s, "rate_limit") => states[s].rate_limit_notified
            /\ Emitted(s, "waiting") => states[s].notified_waiting
            /\ watchLog[s].out # <<>> => states[s].last_notification = now)
    /\ [][\A s \in WatchNames :
            (~watchLog[s].delivered /\ watchLog'[s].captured) =>
                /\ (watchLog[s].out = <<"permission">>
                      /\ promptRun'[s].text = promptRun[s].text)
                      => watchLog'[s].out # <<"permission">>
                /\ (watchLog[s].out = <<"rate_limit">>
                      /\ rateRun'[s].since = rateRun[s].since)
                      => watchLog'[s].out # <<"rate_limit">>
                /\ (watchLog[s].out = <<"waiting">>
                      /\ episode'[s].waiting = episode[s].waiting)
                      => watchLog'[s].out # <<"waiting">>]_vars

\* the pass after a permission notification whose delivery failed, with the
\* prompt still shown
C26_Witness ==
    \E s \in DOMAIN states :
        /\ promptRun[s].sent = 1
        /\ watchLog[s].captured
        /\ watchLog[s].out = <<>>
        /\ states[s].notified_prompt = promptRun[s].text
        /\ states[s].last_notification < now
        /\ promptRun[s].lost

\* C27: when the stop signal ends the loop of watch_sessions, every session
\* enumerated in the pass has been checked and every notification decided
\* by check_session in the pass has been sent
C27_StopAfterTick ==
    loop.pc = "stopped" => (loop.todo = {} /\ loop.res.out = <<>>)

\* whether the overlay network gives an address to the call: tailscale
\* reports one, or an interface of the machine has one in 100.0.0.0/8
OverlayFound(call) ==
    \/ call.tailscale.ok /\ call.tailscale.ips # <<>>
    \/ call.ifconfig.ok
          /\ \E i \in 1..Len(call.ifconfig.inet) :
                call.ifconfig.inet[i][1] = 100

\* C28: a call of send_interactive_notification that has no responder
\* address (none passed or configured, none found on the overlay network)
\* issues no token and sends nothing, and returns failure once it has
\* looked for the address; the host of the action links is never the
\* loopback address nor any address other than the one passed, configured
\* or found on the overlay network
C28_NoAddressNoLinks ==
    notice.calls > 0 =>
        /\ (notice.call.host = NoHost /\ ~OverlayFound(notice.call)) =>
              /\ notice.result.tokens = <<>>
              /\ notice.result.posts = 0
              /\ (notice.call.enabled /\ notice.call.pushover)
                    => ~notice.result.ret
        /\ notice.result.posts > 0 =>
              /\ notice.result.host \in
                    {notice.call.host, OverlayIP} \ {NoHost}
              /\ notice.result.host = OverlayIP =>
                    (notice.call.host = NoHost /\ OverlayFound(notice.call))

\* the call is enabled and has its push credentials, no host is passed or
\* configured, tailscale fails and the machine has only the loopback and a
\* LAN address: the call fails
C28_Witness ==
    /\ notice.calls > 0
    /\ notice.call.enabled
    /\ notice.call.pushover
    /\ notice.call.host = NoHost
    /\ ~notice.call.tailscale.ok
    /\ notice.call.ifconfig.inet = <<Loopback, LanIP>>
    /\ notice.call.response = 200
    /\ notice.result = Undone(FALSE)

\* whether an address is private, loopback or link-local: 10.0.0.0/8,
\* 172.16.0.0/12, 192.168.0.0/16, 127.0.0.0/8, 169.254.0.0/16, and for IPv6
\* ::1, fe80::/10 and fc00::/7
IsInternalAddress(ip) ==
    IF ip.v = 4
    THEN \/ ip.parts[1] \in {10, 127}
         \/ ip.parts[1] = 172 /\ ip.parts[2] \in 16..31
         \/ ip.parts[1] = 192 /\ ip.parts[2] = 168
         \/ ip.parts[1] = 169 /\ ip.parts[2] = 254
    ELSE \/ ip.parts = <<0, 0, 0, 0, 0, 0, 0, 1>>
         \/ ip.parts[1] \in 65152..65215
         \/ ip.parts[1] \in 64512..65023

\* C29: send_webhook calls urlopen only for a URL that validate_webhook_url
\* accepts, and validate_webhook_url rejects a URL whose scheme is neither
\* http nor https, whose hostname is localhost or ends in an internal
\* suffix, or whose host resolves to a private, loopback or link-local
\* address; it accepts an http(s) URL of a public host
C29_WebhookGuard ==
    notice.calls > 0 =>
        /\ ~notice.result.valid => notice.result.posts = 0
        /\ notice.call.url.scheme \notin {"http", "https"}
              => ~notice.result.valid
        /\ (\E private_host \in {<<"localhost">>, <<"local">>,
                                  <<"internal">>, <<"intranet">>} :
               EndsWithName(LowerName(notice.call.url.hostname),
                            private_host))
              => ~notice.result.valid
        /\ (notice.call.resolved.ok
              /\ \E i \in 1..Len(notice.call.resolved.addr_info) :
                    IsInternalAddress(notice.call.resolved.addr_info[i]))
              => ~notice.result.valid
        /\ (notice.call.url.scheme = "https"
              /\ notice.call.url.hostname = <<"hooks", "example", "com">>
              /\ notice.call.resolved.addr_info = <<IPv4(8, 8, 8, 8)>>)
              => notice.result.valid

NothingToJudge(input) ==
    \/ input.json = "invalid"
    \/ input.tool_name # "Bash"
    \/ input.kind = "string" /\ input.command = <<>>

\* C31: a run of the hook allows (status 0, nothing printed) when it has
\* no Bash command to judge; otherwise it blocks (status 0, decision
\* "block") when the command matches a blocked pattern, else escalates
\* (status 2) when it matches an escalate pattern, else allows; the
\* category and the reason are those of the first matching pattern in
\* table order
C31_HookDecision ==
    hook.runs > 0 =>
        IF NothingToJudge(hook.input)
        THEN hook.verdict.code = 0 /\ hook.verdict.decision = ""
        ELSE IF hook.input.kind = "string"
                /\ check_command(hook.input.command,
                      load_custom_config(hook.input.config).blocked)
                      # NoMatch
        THEN /\ hook.verdict.code = 0
             /\ hook.verdict.decision = "block"
             /\ [category |-> hook.verdict.category,
                 reason |-> hook.verdict.reason] =
                    check_command(hook.input.command,
                        load_custom_config(hook.input.config).blocked)
        ELSE IF hook.input.kind = "string"
                /\ check_command(hook.input.command,
                      load_custom_config(hook.input.config).escalate)
                      # NoMatch
        THEN hook.verdict.code = 2 /\ hook.verdict.decision = ""
        ELSE hook.verdict.code = 0 /\ hook.verdict.decision = ""

\* C32: validate_token accepts at most one token string for a signed tuple
\* (session, action, issuedAt, signature): two accepted strings that decode
\* to the same tuple are the same string
C32_SingleUsePerTuple ==
    \A a \in accepted : \A b \in accepted :
        B64Decode(a).data = B64Decode(b).data => a = b

\* whether the calls made for a session in a pass send a notification
SendsNotification(calls) ==
    \E i \in 1..Len(calls) :
        calls[i].call \in {"send_notification", "send_interactive_notification"}

\* last_notification of session s before the pass: 0 for a state yet to be
\* created (SessionState.__init__)
LastNotificationBefore(s) ==
    IF s \in DOMAIN states THEN states[s].last_notification ELSE 0

\* C33: for every session last_notification is the time of the most recent
\* notification sent for it (0 if none): it never decreases, a pass that
\* sends a notification for the session sets it to the time of the pass,
\* and a pass that sends none leaves it as it was.
C33_LastNotificationIsLastDispatch ==
    [][\A s \in DOMAIN states' :
          /\ states'[s].last_notification >= LastNotificationBefore(s)
          /\ IF SendsNotification(watchLog'[s].calls)
             THEN states'[s].last_notification = now'
             ELSE states'[s].last_notification = LastNotificationBefore(s)]_vars

\* C34: when the prompt line found in the capture of a pass cannot be parsed
\* by parse_permission_prompt, the pass is as one that found no prompt: it
\* emits no permission event, and last_prompt, prompt_detected_at and
\* notified_prompt are clear after it.
C34_UnparseableIsNoPrompt ==
    \A s \in DOMAIN states :
        \A p \in {extract_prompt_from_output(states[s].last_content)} :
            (watchLog[s].captured /\ p # NoPrompt
                /\ ~parse_permission_prompt(p).ok)
            => /\ \A i \in 1..Len(watchLog[s].out) :
                     watchLog[s].out[i] # "permission"
               /\ states[s].last_prompt = NoPrompt
               /\ states[s].prompt_detected_at = NoTime
               /\ states[s].notified_prompt = NoPrompt

(***************************************************************************)
(* SpecScan: extract_prompt_from_output as a function of the pane text     *)
(***************************************************************************)
BareHead == <<"Permission">>
BareTail == <<"required", "now">>
AllowHead == <<"Allow", "Bash">>
AllowTail == <<"to", "run", "ls">>
ScanLines ==
    {<<>>, Done, PromptEdit, BareHead, BareTail, AllowHead, AllowTail}
MaxScanLines == 3

\* a prompt followed by n lines of other output
Scrolled(n) == [i \in 1..(n + 1) |-> IF i = 1 THEN PromptBash ELSE Done]

ScanOutputs ==
    UNION {[1..n -> ScanLines] : n \in 0..MaxScanLines}
        \cup {Scrolled(19), Scrolled(20)}

ScanInputs == [output : ScanOutputs, lines_to_check : {1, 2, 3, 20}]

\* the call returns
RunScan ==
    /\ ~scan.done
    /\ scan' = [scan EXCEPT !.done = TRUE,
                  !.result = extract_prompt_in(scan.input.output,
                                               scan.input.lines_to_check)]
    /\ UNCHANGED <<watchVars, responderVars, now, ticks, notice, startup,
                   hook, keys>>

InitScan ==
    /\ scan \in [input : ScanInputs, done : {FALSE}, result : {NoPrompt}]
    /\ hook = <<>>
    /\ keys = <<>>
    /\ notice = <<>>
    /\ startup = <<>>
    /\ IdleWatcher
    /\ IdleResponder

NextScan == RunScan

SpecScan == InitScan /\ [][NextScan]_vars

\* the last lines_to_check lines of the output, blank lines at its ends apart
ScanWindow(input) == LastLines(StrippedLines(input.output), input.lines_to_check)

\* the lines of the window that are not empty and show an indicator
ScanHits(input) ==
    {i \in 1..Len(ScanWindow(input)) :
        /\ ScanWindow(input)[i] # <<>>
        /\ is_permission_prompt(ScanWindow(input)[i])}

\* C35: extract_prompt_from_output returns the bottom-most non-empty line of
\* the last lines_to_check lines that shows a permission indicator; it
\* returns none for an empty output and when no line of the window shows
\* one, so what it returns is always a line of the window.
C35_BottomMostOfWindow ==
    scan # <<>> /\ scan.done
    => /\ ScanHits(scan.input) # {}
            => scan.result = ScanWindow(scan.input)[Max(ScanHits(scan.input))]
       /\ (scan.input.output = <<>> \/ ScanHits(scan.input) = {})
            => scan.result = NoPrompt
       /\ scan.result # NoPrompt
            => \E i \in 1..Len(ScanWindow(scan.input)) :
                  scan.result = ScanWindow(scan.input)[i]

(***************************************************************************)
(* SpecKeys: two processes importing responder.py while no key file exists *)
(***************************************************************************)
KeyProcesses == {"notifier", "responder"}

\* what secrets.token_bytes(32) may return
FreshKeys == {"k1", "k2"}

NoKeyFile == [exists |-> FALSE, bytes |-> ""]

\* the message a token of the session rc-a signs
KeyMessage == <<"rc-a">> \o Colon \o <<"yes">> \o Colon \o FormatTs(Sec(1000))

\* process p at statement pc of get_secret_key
AtKey(p, pc) == keys.proc[p].pc = pc

KeyStep(p, pc, key, file) ==
    /\ keys' = [keys EXCEPT !.proc[p] = [pc |-> pc, key |-> key],
                            !.file = file]
    /\ UNCHANGED <<watchVars, responderVars, now, ticks, notice, startup,
                   hook, scan>>

\* line 103: SECRET_KEY_FILE.exists()
KeyExists(p) ==
    /\ AtKey(p, "exists")
    /\ KeyStep(p, IF keys.file.exists THEN "read" ELSE "generate", "",
               keys.file)

\* line 104: return SECRET_KEY_FILE.read_bytes()
KeyRead(p) ==
    /\ AtKey(p, "read")
    /\ KeyStep(p, "ready", keys.file.bytes, keys.file)

\* lines 107-108: mkdir, key = secrets.token_bytes(32)
KeyGenerate(p) ==
    /\ AtKey(p, "generate")
    /\ \E k \in FreshKeys : KeyStep(p, "open", k, keys.file)

\* line 109, write_bytes opening the file: it exists and is empty
KeyOpen(p) ==
    /\ AtKey(p, "open")
    /\ KeyStep(p, "write", keys.proc[p].key, [exists |-> TRUE, bytes |-> ""])

\* lines 109-111, write_bytes writing the key; chmod; return key
KeyWrite(p) ==
    /\ AtKey(p, "write")
    /\ KeyStep(p, "ready", keys.proc[p].key,
               [exists |-> TRUE, bytes |-> keys.proc[p].key])

\* generate_token in process p, then the signature check of validate_token
\* (lines 172-177) in process q
KeyRelay(p, q) ==
    /\ p # q
    /\ AtKey(p, "ready")
    /\ AtKey(q, "ready")
    /\ keys' = [keys EXCEPT !.relayed = @ \cup
                  {[issuer |-> p, validator |-> q,
                    accepted |-> Hmac(keys.proc[p].key, KeyMessage)
                                   = Hmac(keys.proc[q].key, KeyMessage)]}]
    /\ UNCHANGED <<watchVars, responderVars, now, ticks, notice, startup,
                   hook, scan>>

InitKeys ==
    /\ keys = [file |-> NoKeyFile,
               proc |-> [p \in KeyProcesses |-> [pc |-> "exists", key |-> ""]],
               relayed |-> {}]
    /\ hook = <<>>
    /\ scan = <<>>
    /\ notice = <<>>
    /\ startup = <<>>
    /\ IdleWatcher
    /\ IdleResponder

NextKeys ==
    \E p \in KeyProcesses :
        \/ KeyExists(p)
        \/ KeyRead(p)
        \/ KeyGenerate(p)
        \/ KeyOpen(p)
        \/ KeyWrite(p)
        \/ \E q \in KeyProcesses : KeyRelay(p, q)

SpecKeys == InitKeys /\ [][NextKeys]_vars

\* C36: when the notifier and the responder both start while no key file
\* exists, in any interleaving of their checks and writes of the key file
\* they end up holding the same key, and every token issued by one passes
\* the signature check of the other.
C36_OneSigningKey ==
    /\ (\A p \in KeyProcesses : AtKey(p, "ready"))
          => keys.proc["notifier"].key = keys.proc["responder"].key
    /\ \A r \in keys.relayed : r.accepted

\* a response to a request whose token validate_token accepted and that
\* ended in 404 (session missing), 400 (unknown action) or 500 (send failed)
FailedAfterValidation(resp) ==
    resp.path = "/respond" /\ resp.valid /\ resp.status \in {404, 400, 500}

\* C37: handle_respond consumes the token before the session check and
\* before forwarding: when a /respond request with a valid token ends in 404,
\* 400 or 500, the token is in USED_TOKENS when the response is sent, and
\* the same request repeated before the next clearing of USED_TOKENS is
\* answered 403 and sends no keystroke.
C37_ConsumedBeforeForwarding ==
    [][/\ FailedAfterValidation(lastReq') => lastReq'.token \in USED_TOKENS'
       /\ (/\ FailedAfterValidation(lastReq)
           /\ requests' = requests + 1
           /\ lastReq'.validated
           /\ lastReq'.token = lastReq.token
           /\ ~SweepDue(now, LAST_CLEANUP))
          => /\ lastReq'.status = 403
             /\ ~lastReq'.sent
             /\ forwarded' = forwarded]_vars

\* a request refused as already used whose token was accepted before and
\* never led to a keystroke
C37_Witness ==
    /\ lastReq.status = 403
    /\ lastReq.error = "Token already used"
    /\ lastReq.token \in accepted
    /\ lastReq.token \notin forwarded

\* the reasons validate_token gives for a refusal
RefusalReasons ==
    {"Token validation error", "Invalid token format", "Token expired",
     "Token already used", "Invalid signature"}

\* C38: a validate_token call that fails returns a reason and adds nothing
\* to USED_TOKENS; only a successful validation adds a token, and it adds
\* exactly the token it validated.
C38_OnlySuccessConsumes ==
    [][/\ (requests' # requests /\ lastReq'.validated /\ ~lastReq'.valid)
            => /\ lastReq'.error \in RefusalReasons
               /\ lastReq'.status = 403
               /\ USED_TOKENS' \subseteq USED_TOKENS
       /\ (requests' # requests /\ lastReq'.valid)
            => /\ lastReq'.token \in USED_TOKENS'
               /\ USED_TOKENS' \ USED_TOKENS \subseteq {lastReq'.token}
       /\ ~(requests' # requests /\ lastReq'.validated)
            => USED_TOKENS' = USED_TOKENS]_vars

\* a refused token that is not in the set while an accepted one is
C38_Witness ==
    /\ lastReq.validated
    /\ ~lastReq.valid
    /\ lastReq.error \in RefusalReasons
    /\ lastReq.token \notin USED_TOKENS
    /\ USED_TOKENS # {}

(***************************************************************************)
(* SpecSweep: the limiter across its periodic sweep                        *)
(***************************************************************************)
SweepDelays == {Sec(30), Sec(280)}

NextSweep ==
    \/ \E d \in SweepDelays : ticks < MaxSweepTicks /\ Tick(d)
    \/ \E ip \in AllClients : Counted(MaxSweepRequests) /\ NotFound(ip)

SpecSweep == Init /\ [][NextSweep]_vars

\* the timestamps of an address in the table, none if it has no entry
Tracked(tracker, ip) == IF ip \in DOMAIN tracker THEN tracker[ip] ELSE <<>>

\* the decision of the limiter that never sweeps: it holds the admissions of
\* the address and counts those of the current window
UnsweptRejects(ip) ==
    OverLimit(Newer(admitted[ip], now - Sec(RATE_LIMIT_WINDOW)))

\* C39: the periodic sweep inside check_rate_limit removes only timestamps
\* two windows old and only addresses left without timestamps, so every
\* decision is the one the limiter without the sweep takes.
C39_SweepChangesNoDecision ==
    [][requests' # requests
        => /\ lastReq'.limited = UnsweptRejects(lastReq'.ip)
           /\ \A ip \in AllClients \ {lastReq'.ip} :
                 Tracked(rate_limit_tracker', ip)
                    = IF RateSweepDue(now, rate_limit_last_cleanup)
                      THEN Newer(Tracked(rate_limit_tracker, ip),
                                 now - Sec(RATE_LIMIT_WINDOW * 2))
                      ELSE Tracked(rate_limit_tracker, ip)]_vars

\* a request refused in the pass that swept the table
C39_Witness ==
    /\ lastReq.limited
    /\ rate_limit_last_cleanup = now
    /\ now > 0

(***************************************************************************)
(* SpecOnce: `watch.py --once`, one pass over the enumerated sessions      *)
(***************************************************************************)
\* watch_sessions(once=True), lines 494-549: the pass, then the break
OncePass(sessions, caps) ==
    /\ loop.pc = "sleep"
    /\ WatchPass(sessions, caps, 0)
    /\ loop' = [AsleepLoop EXCEPT !.pc = "stopped", !.sessions = sessions]

NextOnce ==
    \E sessions \in SUBSET WatchNames :
        \E caps \in [sessions -> Captures] : OncePass(sessions, caps)

SpecOnce == InitWatch /\ [][NextOnce]_vars

\* C40: in --once mode the watcher makes exactly one pass over the
\* enumerated sessions and stops; every SessionState being created in that
\* pass, it emits no permission notification and no rate_limit event,
\* whatever the panes show.
C40_OnceEmitsNoDebounced ==
    /\ ticks <= 1
    /\ (loop.pc = "stopped") = (ticks = 1)
    /\ loop.pc = "stopped" =>
          /\ DOMAIN states = loop.sessions
          /\ \A s \in WatchNames :
                /\ (s \in loop.sessions /\ watchLog[s].listed)
                      => watchLog[s].fresh
                /\ \A i \in 1..Len(watchLog[s].out) :
                      watchLog[s].out[i] \notin {"permission", "rate_limit"}

\* a stopped run whose pass saw a parseable prompt under a rate-limit banner
C40_Witness ==
    /\ loop.pc = "stopped"
    /\ "rc-a" \in DOMAIN states
    /\ states["rc-a"].last_prompt = PromptBash
    /\ states["rc-a"].rate_limit_count = 1

====
